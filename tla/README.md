# QuantStock1: models, checks and proofs

QuantStock1 collects Chinese A-share market data from Tushare into PostgreSQL,
cleans and validates it, and serves it to research with anti-lookahead
guarantees. Several worker processes, one scheduler (with standbys) and an HTTP
API share one database, and almost everything that is hard about the program is
about that sharing. This directory holds TLA+ modules of that behaviour, the TLC
runs that check them, and TLAPS proofs.

## The system

| Component | State | Operations | Talks to |
|---|---|---|---|
| Collection queue (`collect/repository.py`) | `ops.collect_task`, `request_slice`, `collect_run`, `slice_attempt` | create task, recover expired claims, claim, complete, release for retry, fail | every worker, the API |
| Collection executor (`collect/executor.py`) | one transaction per slice; RAW rows, `raw_batch`, `data_watermark` | load, open run and attempt, call provider, next page, finish | queue, provider, governance |
| Worker loop (`collect/worker.py`) | `worker_registry` row; the claim in memory | poll, execute by stage, fail a claim | queue, executors |
| Operations service and API (`ops/service.py`, `api/routes/ops.py`) | none of its own | pause, resume, cancel, retry, backfill, overview | queue tables |
| Capability probe (`datasource/capability.py`) | `source_binding.capability_status` | probe | provider; read by the claim query |
| Scheduler (`collect/scheduler.py`, `scheduler_lock.py`) | advisory lock, `scheduler_state` | leader scan of open trade dates after the watermark | calendar, planners, queue |
| Planners, idempotency (`collect/planners`, `idempotency.py`) | none | split a range into slices, hash a task key | scheduler, API |
| Rate limiter (`collect/rate_limit.py`) | a window of calls per process and binding | acquire | executor |
| Provider client (`datasource/tushare.py`, `errors.py`) | none | call, classify a failure | executor, probe |
| Governance, clean stage (`governance/tasks.py`, `executor.py`) | `clean_run`, `clean_batch`, candidate rows | enqueue, normalise, enqueue quality | queue, RAW |
| Governance, quality stage (`governance/executor.py`) | `quality_run`, issues, published tables, history | validate, publish, supersede, move watermark | queue, published tables |
| Data context (`datacontext/`) | none | cutoff, quality filter, alignment, adjustment | published tables |
| Data API (`api/routes/data.py`, `lineage.py`) | none | daily, minute, financial, events, calendar, securities; lineage of a row and of a batch | data context, lineage |
| Snapshots (`datacontext/snapshot_builder.py`) | `data_snapshot` | build | `clean_batch` |
| Lineage (`lineage/service.py`) | reads only | trace a row, a batch, a snapshot | all tables |
| Storage, catalog, CLI, migrations, scripts | schema and host tooling | | |

`PROJECT.json` repeats the list with the status of each part.

What makes it hard, and what correctness means:

* **Queue.** A lease lasts 60 s and is never renewed, so it can run out while its
  worker still waits for the provider. Then two processes execute one slice. The
  row must have at most one owner, only the owner may decide the slice, a
  finished slice must stay finished, no page may be lost, and a claim must be
  resolved whoever crashes.
* **Executor.** It reads the task once, waits for the provider, and then decides on
  the copy, while operators pause and cancel and other workers of the task
  finish. The task must not be closed while work is left, and not stay open with
  none.
* **Scheduler.** Two leaders, restarts, dates whose task failed: each open date
  should be collected once, and none forgotten.
* **Governance.** Stage tasks run on the same queue without a lock on their slice
  while they execute; batches of one scope can be validated in any order.
  The published tables should show the newest batch of a scope, and each row
  the batch it came from.
  Rules of one item read what other items published, at a moment of their own; a
  row must not contradict what its judgement could see.
* **Provider access.** A limiter per process sleeps inside a transaction that holds the
  slice and its binding. Calls must keep the limit however it changes, a wait must
  end within its minute, and attempts must be bounded whoever dies or retries.
* **Read side.** A query is several statements, each of which sees what has committed
  by then. A replay must read nothing from after its time, the metadata must cover what
  was read, and lineage must show who approved a row.

## Modules

| Module | Purpose |
|---|---|
| `CollectQueue` | the queue, the worker loop, the execution transaction, the operations requests and the probe; properties |
| `LeaseQueue` | what the queue promises, without tasks, tokens, runs or time |
| `MCCollectQueue` | values of the constants for TLC |
| `QueueDocuments` | what `executor.py` says of a finished task, and does not do |
| `CollectQueueProofs` | inductive invariant, safety theorems |
| `CollectQueueRefinement` | the queue implements `LeaseQueue` |
| `Governance` | the clean and quality stages of one DataItem, from a closed collection to the formal and history tables; properties |
| `MCGovernance` | values of its constants for TLC |
| `GovernanceDocuments` | what a design document says of revisions, and the code does not do |
| `PublishedStore` | what the stages promise the readers of the formal tables, without tasks, leases, workers or locks |
| `GovernanceProofs` | inductive invariant, safety theorems |
| `GovernanceRefinement` | the stages implement `PublishedStore`, and `LeaseQueue` too |
| `Scheduler` | the scheduler processes, the calendar, the tasks of one DataItem by date and its watermark; properties |
| `MCScheduler` | values of its constants for TLC |
| `SchedulerProofs` | inductive invariant, safety theorems |
| `MarketData` | the rows of the eight governed DataItems, their normalisation and their keys |
| `Publication` | the governed items together: what the rules of one read of the others, rule versions; properties |
| `MCPublication` | its instance for TLC |
| `PublicationProofs` | inductive invariant, safety theorems |
| `ProviderAccess` | limiter, classification, retries and back-off of the worker processes, in time; properties |
| `CallBudget` | what a rate limiter promises |
| `MCProviderAccess` | its instance for TLC |
| `ProviderProofs` | inductive invariant, safety theorems, the refinement of `CallBudget` |
| `DataReads` | queries and lineage beside the publications that change what they read; properties |
| `MCDataReads` | its instance for TLC |
| `ReadsDocuments` | what a design document and a comment say of the readers, and the code does not do |
| `ReadsProofs` | inductive invariant, safety theorems |

### CollectQueue

State: one variable per column the logic reads (`task`, `slice`, `lease`,
`leasedBy`, `attempts`, `runs`, `attemptLog`, `capability`), two sets for time
(`expired`: leases that ran out, `cooling`: slices whose `next_retry_at` is not
reached), `published` for the step that moves the watermark and enqueues
cleaning, `wk` for what each worker process has in memory and `op` for what each
request handler has. Every *transaction* that is short and reads what it writes
is one action; the execution transaction is cut where another actor's commit can
change what it sees:

| Code | Actions |
|---|---|
| transaction A of `run_worker`: `recover_expired_claims`, `claim_next_slice`, commit | `Poll` |
| transaction C, `execute_claimed_slice`: read the rows, find a RUNNING run | `Load` |
| ... second query `max(run_number) + 1` | `NumberRun` |
| ... flush of run and attempt (row locks from here on) | `OpenAttempt` |
| ... page written, next page ensured, remaining slices counted | `CountSlices` |
| ... `_finalize_task_if_complete` and COMMIT | `CommitPage` |
| ... `_handle_provider_failure` and COMMIT | `FailRetryable`, `FailFinal` |
| any other exception | `Raise` |
| transaction D, `fail_claim_after_unhandled` | `FailClaim` |
| process death | `Crash` |
| time | `LeaseExpires`, `RetryDue` |
| API request: read the task, update its slices, write the task and commit | `OpRead`, `OpWriteSlices`, `OpCommit` |
| `probe_binding` | `ProbeBinding` |

Facts of PostgreSQL and SQLAlchemy the model rests on:

* Sessions do not autoflush and do not expire on commit (`storage/db.py:24`), so
  a status is read once, assigned in memory and written at the flush. A column is
  written only when it differs from the value loaded: `TaskKept`, `TaskSetTo`
  and `RunSetTo` write "if it differs from the copy".
* Isolation is READ COMMITTED: a later query of one transaction sees what others
  committed since (`NumberRun`, `CountSlices`).
* The row of `slice_attempt` references slice and binding, so an open execution
  transaction holds `FOR KEY SHARE` on both; `FOR UPDATE SKIP LOCKED` of the claim
  and recovery queries passes over them. So while one slice of a binding is
  executed, no slice of that binding is claimed (`BindingRowFree`). A slice is
  therefore recovered under its live worker only before that worker's first
  flush, which is what makes `Load` and `OpenAttempt` actions of their own.
* A run that is new flushes `task.status = "RUNNING"`, and a run that was found
  flushes its `heartbeat_at`; both row locks last until the commit
  (`HoldsTaskRow`, `RunRowFree`, `FlushWaits`).
* The token of a claim is a fresh uuid4. `attempt_count` grows by one per claim, so
  the model takes the claim's number for the token.
* A deadlock of row locks, or a unique violation at the insert of a next page,
  aborts a transaction: `Raise` covers both at every point of the transaction.

Left out on purpose: the columns nothing reads (`finished_at`, error texts, audit
rows), RAW rows (idempotent inserts of one transaction), and the stages CLEAN and
QUALITY, which use the same queue with other executors (module `Governance`). A slice is claimed at most
`ClaimBound` times (a bound of the model: the code has none), and a probe finds
one of `ProbeAnswers`.

### Governance

One DataItem, its collections (`Sources`) and what they lead to. Rows are pairs of
a key and a value; what a provider answers, which rows normalisation skips and
which it rejects are parameters (`Answers`, `Skipped`, `Rejected`), so that the
eight branches of `_normalize` and the five publishers are one: all of them keep
the rows they can convert, count the others, and upsert what differs.

| Code | Actions |
|---|---|
| `_write_rows` and `_finalize_task_if_complete` of the source task, with `enqueue_clean_for_collect_task` | `Collect` |
| a late operations request on the source (module `CollectQueue`) | `SourceChanged` |
| transaction A: recovery and claim of a stage slice | `Poll` |
| transaction B: `prepare_stage_run` | `Prepare` |
| transaction C, both executors: read task, source and batch | `Load` |
| `CleanExecutor`: a new batch; the unique constraint; a batch that is there | `CleanNew`, `CleanConflict`, `CleanAgain` |
| `QualityExecutor`: lock the batch as VALIDATING, `_validate`, read the rows to compare with | `Validate` |
| ... BLOCKED and COMMIT | `QualityBlock` |
| ... upsert, select the batches to supersede | `Publish` |
| ... `_supersede_previous`, delete the candidates, complete, COMMIT | `QualityCommit` |
| exception, `fail_claim_after_unhandled`, process death | `Raise`, `FailClaim`, `Crash` |
| time; an operations request on a stage task | `LeaseExpires`, `Request` |

Facts it rests on, besides those above:

* Neither executor opens a `slice_attempt`, so unlike a collection it holds no lock
  on its slice: recovery and another claim can take the slice away at any time,
  and two executions of one slice do overlap.
* What keeps them apart is the row lock of the batch from the flush of VALIDATING
  (`BatchRowFreeFor`), the unique constraint of `clean_batch`, the row locks of
  the upserted keys (`TableRowsFreeFor`) and of the task row (`HoldsTaskRow`).
  VALIDATING is never committed, since it is replaced in the same transaction.
* The current rows and open versions are read before the upsert, the batches to
  supersede after it, each with what was committed by then.
* `_content_hash` is unique in the RAW tables, so a row that came before stays with
  its first batch (`RawTable`).
* The tasks of both stages have the same priority, so any ready one may be next.

Simplified: an operations request is one step here (its interleaving with the
workers is the subject of `CollectQueue`); a RUNNING CleanRun may or may not be
found (`fresh`); the rules about the data itself may block any batch; the rerun after a change of rule versions is in `Publication`; run and issue rows, counters
and the watermark's timestamps are left out. A slice is
claimed at most `ClaimBound` times, a bound of the model.

### Scheduler

One DataItem that is collected by trade date. A day is a number, a year is a range of
days (`YearEnd`), and the time of day is whether `available_after` has passed. A task is
what its idempotency key tells apart, a run type and a date, and is absent, open or
SUCCEEDED; how it gets from one to the next is `CollectQueue`.

| Code | Actions |
|---|---|
| the clock in Shanghai | `Tick` |
| `enqueue_trade_calendar`, one slice per year | `EnqueueTradeCalendar` |
| a calendar slice succeeds | `CollectCalendar` |
| `schedule_once`: clock, `pg_try_advisory_lock` | `TryLock` |
| `_schedule_definition`: watermark; candidates, bootstrap, availability | `ReadWatermark`, `ReadDates` |
| ... `enqueue_trade_date_item` per date, `ON CONFLICT DO NOTHING` | `EnqueueDate` |
| the `finally` clause; the commit after it | `Unlock`, `Commit` |
| an exception or the death of the process; the container's restart | `Stop`, `Restart` |
| `create_backfill`, the command line | `Enqueue` |
| `_finalize_task_if_complete`: read the watermark; write it and commit; roll back | `LoadWatermark`, `CloseTask`, `AbandonClose` |

Facts it rests on: the advisory lock is the session's, so `Unlock` comes before `Commit` and
the end of a session frees it; each query of the scan sees what was committed by
then; an `INSERT` of a key that an open transaction holds waits for that transaction
(`MayInsert`); the watermark row is unique, so of two closes that found none one is rolled
back, and a close writes the date only if it differs from the value it read
(`Written`).

Simplified: other DataItems of the same scan appear only as the exception they may
raise (`Stop`); days, calendar ranges, operators' requests and stops are bounded
(`LastDay`, `Calendars`, `Requests`, `MaxStops`); operators ask for no day of the future,
and a request of theirs is one step; the
calendar does not change, it is only collected late.

### MarketData and Publication

`MarketData` has, for each of the eight governed items, the record sets of the raw and the
formal table, the conversions that can fail (a quantity that is no whole number of shares,
a float that is not finite, a date that does not parse), what `_normalize` skips,
accepts and rejects, `_latest_by_key` and the business key. Copied fields are left out;
one price, quantity or date stands for those that are treated alike.

`Publication` composes the items. Where `Governance` has one item under failures,
requests and any verdict, here the verdict is computed from what the tables hold, and each
stage task runs once.

| Code | Actions |
|---|---|
| `_write_rows` (`ON CONFLICT` on the content hash), close of the source, its CLEAN task | `Collect` |
| `CleanExecutor`: a batch with its candidates and counts; the unique constraint of the candidates; a batch that is there | `CleanNew`, `CleanFails`, `CleanAgain` |
| `QualityExecutor`: `_validate` with all it reads of other items, the comparison with the table | `Judge` |
| ... an exception in the minute rules | `JudgeFails` |
| ... BLOCKED; upsert, supersede, delete the candidates, commit | `Block`, `Publish` |
| a new `QUALITY_RULE_VERSION` | `Deploy` |
| `enqueue_clean_latest` | `CleanLatest` |

`CountRules`, `CalendarRules`, ... `MinuteRules` are the rules that block, item by item;
rules that only warn change no row. Between `Judge` and `Publish` other runs commit: the
batch row is locked, the tables that were read are not.

The bounds of the instance are groups (`Bounds`): which sources close in one
behaviour, how many rule versions are deployed in it and what is cleaned again. Each group
is one item with the calendar, the master and the daily rows that it is compared with, and
a revised answer of one of them.

### ProviderAccess and CallBudget

What `CollectQueue` abstracts: time. A clock in seconds, the deque of each process and
key (the part of the history variable `log` from `head` on), the limit and the status of
the binding that an execution read at its start, the attempt counter, due times and leases.

| Code | Actions |
|---|---|
| claim; recovery of an expired lease | `Claim`, `Recover` |
| slice and binding are read; the attempt is inserted, `acquire` is called | `Load`; `Open` |
| an exception; `fail_claim_after_unhandled` | `Raise`; `FailClaim` |
| `acquire`: no limit; `popleft` and room; `popleft` and no room; after the sleep | `PassUnlimited`, `Grant`, `Wait`, `Wake` |
| the answer, its classification, the slice, the binding, commit | `Answered` |
| process death and restart with an empty window | `Crash` |
| an operator's new limit, a probe, a retry request | `SetLimit`, `Probe`, `Retry` |
| time | `Tick` |

An answer is rows, a full page, no rows, a missing field, or an exception of which only
the words that `classify_provider_exception` looks for matter. `CallBudget` is the promise:
a call under a limit of n comes at least a minute after the n-th last one, in whatever way a
limiter keeps account.

A lease runs out by the clock. The next poll of any worker takes the slice back, from a
worker that has died and from one that lives: the row is locked by the foreign key of
the attempt only from `Open` on, so between the commit of the claim and that insert, and again
between a rollback and `fail_claim_after_unhandled`, a live worker can lose its lease. A worker
carries the number of the claim its token was made for; the attempt number it compares with the
limit is the one it read in `Load`, perhaps after a later claim. `late` counts the recoveries
from live workers.

Simplified: a slice is the only one of its task; a `Retry` is one step, its check and its
update in two being in `CollectQueue`; runs are left out, so whether an execution
writes a task that was FAILED back (which depends on what its own run was given)
is left open in `TaskAfter`, and an execution that waits for another worker's run row does so in
`CollectQueue` only; lease and retry times are one field, since a slice uses one of them at a
time; a probe, which like an execution reads the binding before it asks and writes after it, is
one step; the health columns of the source, which no decision reads, are left out.

### DataReads

Publications take a stamp (`Stamp`) and commit later (`Commit`); several quality runs of a
batch follow each other; a query is one action per statement.

| Code | Actions |
|---|---|
| `prepare_stage_run`; BLOCKED; stamp and comparison; exception; commit | `Prepare`, `Block`, `Stamp`, `Rollback`, `Commit` |
| a request; refused with 400 or 500; a statement that fails or times out | `Ask`, `Reject`, `StatementFails` |
| `query_daily`, `_read_adj_factors`, `_read_calendar` | `Daily`, `ReadAdjFactors`, `ReadCalendar` |
| `query_events`: its two statements | `Suspend`, `LimitPrice` |
| calendar and securities | `Plain` |
| `apply_adjustment`, `align_to_calendar`, `_build_metadata`, the response | `Respond` |
| `get_data_lineage`: the row, then its quality runs; `get_batch_lineage` | `FindRow`, `DataLineage`; `BatchLineage` |

The pure functions are operators (`Adjusted`, `Groups`, `Aggregate`), applied to what they
are really given: `mappings()` of a query for an entity yields dicts with the one key of
the entity, so every look-up of a column in them is `None` (`Mapping`, `Get`).
The API always asks in the mode research. The modes strategy and backtest are what the
constructor of `DataContext` offers to a strategy or a backtest; no caller of the repository
uses them yet, and the tests of anti-lookahead cover `resolve_cutoff` alone.

## Runs

The parallel runs use two workers. `CHECK_DEADLOCK FALSE` everywhere: the system may stop
for good when everything is finished, and, in the models, when a bound is used up.

| Run | Instance | Shows |
|---|---|---|
| `queue_paged` | one task, a planned slice and its next page, each claimed twice, crashes, leases that expire, probes, fairness | `SingleOwner`, `SuccessHasItsAttempt`, `NoPageLost`, the refinement `ImplementsPromise`, and the liveness properties `ClaimResolved`, `NoStarvation` |
| `queue_operator` | two planned slices of one task, two workers and an operations request that interleaves with them, symmetry of workers | `QueueInv`, `SucceededIsSettled`, `PublishedIsSettled`, `DoneIsFinal`, `ClaimEnds` under pause, resume, cancel and retry |
| `governance_parallel` | two collections of one scope that correct one value, history kept, quality slices claimed twice, symmetry of workers and sources | `CandidatesKept`, `SupersededByApproved`, `CurrentVersionOpen`, the refinement `ImplementsStore` |
| `governance_operator` | one collection (empty, with a skipped row, or with a rejected row), cancel and retry, every slice claimed twice, fairness | `RowsWereApproved`, `DoneMeansDone`, the refinement `ImplementsQueue`, and the liveness property `CandidateResolved` |
| `scheduler` | two schedulers, one of which may stop, three open days of two years, a calendar task of two slices, a closing worker, a backfill of the last day, fairness | `WaitsForCommitOnly`, `ScanIsComplete`, `InsertedOnce`, `NothingEarly`, `CalendarHasNoHole`, `WatermarkIsCollected`, and the liveness property `DateIsScheduled` |
| `publication` | twelve sources in eight groups of up to five, answers and revisions of every item, two rule versions, two workers, symmetry of workers | `TablesMirrorRaw`, `KnownSecurities`, `NoSilentChoice`, `MinuteDayComplete`, `ConflictsAreLater`, `WritesOnce` |
| `provider` | two worker processes that may claim one slice, limits 0 to 2 that change, an answer for each kind of outcome, any two of a death, a lease that runs out under a live worker and an operator's request, fairness | `RateKept`, `SlotWithinPeriod`, `ClaimsBounded`, the refinement `KeepsBudget`, and the liveness property `SliceSettles` |
| `reads` | one session with every kind of request, up to two batches of the item at a time with up to two quality runs each, three instants | `NoLookahead`, `MetadataCoversAnswer`, `LineageOnRecord` |
| `doc_*` | as small as the counterexample allows (`doc_closed`: three slices) | the violated claims, see Findings |

Why these bounds are enough: two workers are needed for a lost lease and
suffice for it, since a third could only repeat what the second does to the
first; two claims of a slice are the first claim and the one that races it; two
slices of a task make an overlap of two executions and a close that misses one of them;
a chain of one next page has every case of `_ensure_next_page_slice`. The proofs
remove the bounds for the safety properties.

For the stages, two collections of one scope are what superseding and overlapping
publications take; a correction and its reversal need two values of one key;
a rejected row beside an acceptable one shows that the whole batch is held back. Requests
to pause and to resume stage tasks are checked in no run: they change a status that cancel
and retry change too, and the proof of `GovernanceInv` has them.

For the scheduler, two processes are what an overlap of scans takes; three days make a
date before the watermark, one that is missed and today, over the end of a
year; one stop reaches a leader with the lock, with uncommitted tasks or after its
unlock.

For publication, a rule relates two items and reads the master and the calendar besides,
which is what a group holds; a judgement and one other commit within it make the races; a
grid of two minutes in two sessions has a gap to miss and both its ends.

For the provider, a minute of two seconds has a call at its edge and one inside; the limits
are none, the smallest and one that leaves a call over when it is lowered. Two attempts,
where the code has three, are a first failure that is retried and a last one that is not; a
lease of one second runs out before the attempt is inserted, and during a sleep, which keeps
the row locked. The four answers end in a success, a retry, a final failure, and a final failure that
blocks the binding; `ProviderProofs` has every answer and every number of each trouble.

For the reads, a row that is overwritten once between two statements is the race, and two
runs of a batch make the one that published and a later one.

Properties, and what each excludes:

* `SingleOwner`: no two workers act under the lease in a row.
* `SuccessHasItsAttempt`: SUCCEEDED only with the attempt row of the last claim.
* `NoPageLost`: a full page is never committed without its continuation.
* `SucceededIsSettled`: a SUCCEEDED task has no slice at work, waiting for a retry
  or failed.
* `PublishedIsSettled`: the watermark moves only when every planned slice is over.
* `DoneIsFinal`, `ClaimEnds`: who may move a slice out of which status.
* `ClaimResolved`, `NoStarvation`: claims end; a claimable slice does not wait for
  ever although claims skip locked rows.

* `RowsWereApproved`: a row of the formal table is one its batch normalised, and the
  batch passed quality and had no rejected row.
* `CandidatesKept`: a batch has all candidates until it is approved and none after;
  a partly deleted or partly published batch does not exist.
* `ImplementsStore`: every step is one of `PublishedStore` or changes nothing that readers
  see. So rows of a batch enter the table in one step, the one that approves it, never a
  second time and never together with rows of another batch; a batch with a rejected row
  never gets there; the keys of other rows stay as they were.
* `ImplementsQueue`: the slices of the stages move as `LeaseQueue` says, so a worker that
  lost its claim never ends the slice.
* `DoneMeansDone`: a SUCCEEDED stage slice stands for a batch, or for a verdict.
* `SupersededByApproved`, `CurrentVersionOpen`: superseding names an approved batch of
  the scope; the row of a key is always an open version of its history.
* `CandidateResolved`: a candidate batch is judged in the end, unless its slice failed
  or its task was paused or cancelled.

* `WaitsForCommitOnly`: two scans never wait for each other's inserts, although the lock is
  released before the commit.
* `ScanIsComplete`, `InsertedOnce`: a scan leaves no date it found due without a task,
  and no key is inserted twice, by whatever other scans insert, commit or roll back.
* `NothingEarly`: no task for a closed day, nor for one the source cannot have yet,
  although a scan may outlast midnight.
* `CalendarHasNoHole`: the slices of a range cover it.
* `WatermarkIsCollected`: the watermark is a date with a SUCCEEDED task, whichever of
  overlapping closes wrote it last.
* `DateIsScheduled`: once there is a watermark, a date after it gets a task or is
  passed by it, whoever died.

* `TablesMirrorRaw`: a published row is the normal form of a raw row of the batch it names,
  whichever batch had the key before; an approved batch left no row out, although a row that
  equals the table's is not written and other batches commit meanwhile. Excepted are price
  limits, which are skipped as long as their security is unknown.
* `KnownSecurities`: every published row of daily or minute data names a security of the
  master, although no foreign key says so and each batch was checked at its own moment.
* `NoSilentChoice`: when the pages or attempts of one collection disagree about a key,
  nothing of it is published.
* `MinuteDayComplete`: the published minutes of a security on a day are none or the whole
  grid, whatever batches they come from.
* `ConflictsAreLater`: of two published rows that contradict each other, the one to compare
  with was not yet published when the other was judged.
* `WritesOnce`: a published batch never writes again, however many tasks a new rule
  version brings it, so it puts back no row that was revised.

* `RateKept`, `KeepsBudget`: no process makes more calls of a binding in a minute than the
  limit that held for the last of them, whatever limits were set in between.
* `SlotWithinPeriod`: one call sleeps a minute at most, in all its sleeps together.
* `ClaimsBounded`: a slice is claimed `retry_max_attempts` times, and once more for each death,
  each request and each lease that ran out while its worker lived, in whatever order they
  come. Nothing in the code limits the last of these: a worker that always needs longer than its
  lease to insert the attempt claims for ever.
* `SliceSettles`: a slice is collected or given up in the end, or its binding is blocked, or its
  task was failed by a worker that had lost the lease; provided that leases run out
  under live workers finitely often (`MaxLate`).

* `NoLookahead`: a replay reads no content that was stamped after its time, although rows
  are overwritten in place.
* `MetadataCoversAnswer`: the cutoff an answer names covers every row read for it.
* `LineageOnRecord`: the lineage of a row shows a quality run that approved it, with the
  row's verdict, whatever is written between the statements.

The type invariant of `CollectQueue` is a conjunct of `QueueInv`; those of the others are
proved and not run (that of `Publication` says that a key has one row, from an approved
batch), and so is `GovernanceInv`.

Fairness (`Fairness` in `CollectQueue` and in `Governance`): a worker loop keeps polling and its
transaction goes on (it is a sequential program; the Tushare client has a
request timeout, `datasource/tushare.py`), clocks advance, a request handler that
started finishes. Crashes, exceptions, requests and probes are not assumed to
happen. In these two all of it is weak fairness: no action needs to be enabled for long by luck,
since the row locks that disable `Poll` are those of transactions that end. In `Scheduler` the
loop of `run_scheduler` goes on and a stopped process is restarted
(`compose.dev.yml`, `restart: unless-stopped`); clocks, workers and operators may do
nothing. In `ProviderAccess` a worker goes on and time passes while something waits for it; recovery is
strongly fair, because every poll recovers what has expired before it claims
(`collect/worker.py`), so a worker that polls again and again cannot pass an expired slice over. `Publication` and `DataReads` state no liveness:
that a stage task is executed is the subject of `Governance`, and no code promises a
request an answer.

## Findings

Each is a run that TLC must find violated; the quoted line is in `PROJECT.json`.

| Run | What the code does |
|---|---|
| `doc_closed` | write skew: two workers finish the last two slices at once and the task is never closed |
| `doc_revision` | a value corrected to B and back to A stays B in the formal table |
| `doc_as_of` | the API ignores the `as_of_time` of a request, and returns it as the cutoff of the answer; the design asks for the bound in line 327 and drops it for this mode in lines 769-771 |
| `doc_reader_policy` | STRICT and STANDARD, the default, select no published row: they compare with words that no publication writes |

### Disagreements without a run

The models also contain the following, which have no run of their own.

In the queue:

* a worker in flight overwrites CANCELLED with RUNNING, PARTIAL, SUCCEEDED or FAILED
  (`collect/executor.py:503`), and a pause or cancel that read the task earlier overwrites
  SUCCEEDED (`ops/service.py:249`);
* a task is closed SUCCEEDED with cancelled slices (`collect/executor.py:503`);
* the result of a worker without the lease changes the task and adds its next page,
  which detailed design 07 rules out in chapter 39 (`collect/executor.py:265`);
* a paused task goes back to work without a resume (`collect/repository.py:134`);
* a FAILED or LOST run is rewritten as SUCCEEDED (`collect/executor.py:513`);
* a cancelled task gets a new page slice (`collect/executor.py:300`);
* a failure whose message names a frequency and a permission is PERMISSION_DENIED, never
  retried, and blocks the binding until a probe, where detailed design 03 (section 61) has
  a frequency error retried (`datasource/errors.py:29`);
* a final failure reported by a worker without the lease makes the task FAILED while the slice
  waits for its retry (`collect/executor.py:473`): no poll claims a slice of a FAILED task,
  and a retry request is refused because no slice has failed (`ops/service.py:310`).

In the scheduler:

* a backfill of a later date moves the watermark over a missed one, or over a hole of a
  calendar that is half collected, and the date is never scanned again, where
  implementation note 03 says that missed dates are filled (`collect/executor.py:553`);
* the watermark goes back when an older date is closed later (`collect/executor.py:553`).

In governance:

* a quality slice that runs again after publishing finds no candidates and turns PUBLISHED
  into BLOCKED (`governance/executor.py:709`);
* overlapping publications leave two open versions of a key, where detailed design 12
  closes the one before (`governance/executor.py:1215`);
* a stage task is SUCCEEDED while its slice is not (`governance/executor.py:151`), or
  goes from CANCELLED to RUNNING (`governance/executor.py:167`);
* the batch of an older collection supersedes that of a newer one, and overlapping
  publications leave two PUBLISHED batches in a scope (`governance/executor.py:1329`);
* a minute bar without a price makes the comparison with the day raise, after the rule that
  reports it: the task FAILS and the batch stays a CANDIDATE, where implementation note
  18 (section 4) blocks it (`governance/executor.py:929`);
* a price limit that is collected before its security is in the master is skipped for good,
  as if it were no A share, of which detailed design 12 (section 21) says that they are
  accepted (`governance/executor.py:585`).

In the read side:

* the answer of the daily and events endpoints is an error as soon as there is a row: the
  rows are dicts that hold an object of the ORM, which has no encoding
  (`datacontext/context.py:68`);
* for the same reason adjustment finds no factor and marks every row as a gap, and monthly or
  weekly alignment of two rows raises;
* a week is never split, since the gap of two dates is taken only if a date has an
  attribute `days`, which none has (`datacontext/alignment.py:76`);
* the minute reader asks for columns that `stock_minute` lacks and the financial reader for
  `security_code`: both endpoints always fail;
* the lineage of a minute row shows the status of the batch's latest run, not that of the
  run that published it (`lineage/service.py:183`);
* `available_at` is the moment of publication (`governance/executor.py:1062`); the header
  of `datacontext/time_semantics.py` and the design of CORE
  (`.specforge/project/modules/CORE/design.md:325`, `:787`) have it encode the days of silence
  of the item (`silence_days`, 0 by default), which no code reads;
* a row that was overwritten is missing from a replay of the time before, and a replay of a
  moment between the stamp of a publication and its commit answers differently afterwards
  (`governance/executor.py:1058`).

## Proofs

`CollectQueueProofs` and `CollectQueueRefinement`, checked by TLAPS, for every value of
the constants that satisfies `QueueConstants` (identities are distinct, maps have
the domains they should; nothing bounds the numbers of workers, slices, tasks,
operators or claims).

* `TypeCorrect`: `Spec => []TypeOK`.
* `QueueInvariant`: `Spec => []QueueInv`. None of the safety properties is
  inductive alone. `QueueInv` adds four parts: `Tokens` (the token in the row of a
  RUNNING slice is the number of its last claim, no two workers hold the same
  token, and the attempt number a worker read equals its token unless it lost the
  lease), `LockedRows` (a request's slices are as it selected them), `Counts` (a
  worker that counted no slice left stays right until it commits, except for
  pages added since), and `PlannedExist`. From it follow
  `LeaseIsExclusive`, `SuccessIsEvidenced`, `SuccessIsSettled`,
  `PagesAreContinued`, `PublishedAreSettled` and, as action properties,
  `DoneStaysDone` and `ClaimsEndProperly`.
* `QueueKeepsPromise`: `Spec => ImplementsPromise`. The holder of a job is the worker
  that acts under the token in the row; each step is classified per slice as one
  step of `LeaseQueue` (or a stutter), which needs `Tokens` for the uniqueness of the
  holder.

The argument in one paragraph: a claim writes a token that no worker holds, so
from then on every earlier holder fails the comparison in `HoldsLease`; a status
other than RUNNING fails it as well; so the slice row is only moved by the last
claimant, by recovery after expiry, or by a request that locked it in a status
where no worker is at it. What a task says is not protected like this, which is
why the only task-level facts that hold are about slices that are over.

`GovernanceProofs`, for every value of the constants that satisfies
`GovernanceConstants` (an answer has one row of a key; nothing bounds workers,
sources, scopes, keys or values):

* `GovernanceInvariant`: `Spec => []GovernanceInv`. The safety properties hold each
  other up: what is published was approved because the judging worker's rows are
  the batch's candidates, which holds because nobody else judges the batch
  (`JudgedAlone`) and candidates are all there or all gone (`CandidatesKept`).
  `Bookkeeping` and `QualityFollowsClean` say which rows exist together.
* `ApprovedRows`, `AllCandidatesOrNone`, `StageWorkCommitted`, `CurrentIsOpen` and
  `OnlyApprovedSupersede` are the parts of it, and `PublicationIsAtomic` the action property
  that follows (`AtomicPublication`).

`GovernanceRefinement`, under the same constants:

* `GovernanceImplementsStore`: `Spec => ImplementsStore`. The store has the formal and the
  history table and what is said of each batch; the offer of a source is what its answer
  normalises to, and a source is faulty when it has a rejected row. `Collect` is `Offer`,
  `CleanNew` is `Stage`, `QualityBlock` is `Block`, `QualityCommit` is `Publish`, every other
  action a stutter. `StoreInv` is what this needs beside `GovernanceInv`: a source has rows
  only once it is closed, the versions a worker closes were open, and it never supersedes
  its own batch. `PublishedStore` leaves open which rows of the offer are written (the code
  leaves out those it found in the table before it waited for the locks), which versions
  are closed and which batches are replaced; what overlapping publications make of these is
  in the findings and in the list of disagreements.
* `GovernanceImplementsQueue`: `Spec => ImplementsQueue`. The holder of a slice is the set of
  workers that act under the token in its row; with `Tokens` (no claim has a number above
  the row's counter, and no two claims of a slice have one number) it has at most one
  member. A poll that recovers several slices and claims one moves each of them by a step
  of its own.

Nothing in the argument about the store uses the lease: what keeps the formal table right
when a slice is executed twice is the lock of the batch row and the deletion of the
candidates. The other one says what the lease does protect, the status of the slice.

`SchedulerProofs`, for every value of the constants that satisfies `SchedulerConstants` (there
is a first day, a year ends on or after its days; nothing bounds processes, workers, days
or requests):

* `SchedulerInvariant`: `Spec => []SchedulerInv`. `LockCovers` says that the lock is held exactly
  from the start of a scan to its last insert, `ScanShape` and `ScanTimes` what a scan
  holds and that its clock is behind the clock, `TaskTimes` that the committed tasks
  were due, `ClosesOpen` that a worker closes a task that is there.
* `SlicesPartitionRange`: for every range, each of its days is in exactly one slice, and no
  slice leaves the range or crosses the end of a year. `PlanSlices` is a recursive function of
  the cursor; the proof takes the largest cursor at which the claim would fail (`Downward`,
  from the well-foundedness of the naturals), for which the next turn of the loop gives a
  contradiction.
* `CalendarIsComplete`: from it, the property `CalendarHasNoHole`.
* `NoMutualWait`: a scan that still inserts holds the lock, so one whose tasks it waits for
  has released it and only its commit is left.
* `ScanIsCompleteAlways`, `EachTaskInsertedOnce`, `SchedulerIsNeverEarly`,
  `WatermarkNamesCollectedDate`: the properties `ScanIsComplete`, `InsertedOnce`,
  `NothingEarly`, `WatermarkIsCollected`.

`PublicationProofs`, for every value of the constants that satisfies `MarketDataConstants`,
`PublicationConstants` and `AnswersAreAboutTheSecurity` (any rows, codes, sessions, sources
and workers; a minute answer is about the security it was asked for, which no code checks):

* `TypesHold`, `SecuritiesAreKnown`, `NothingIsChosenSilently`, `MinuteDaysAreWhole`,
  `ConflictsComeLater`, `PublishedOnce`.
* The inductive invariant carries what a judgement found out to the moment it commits
  (`Judged`): the batch is locked, so its candidates are as they were; the tables
  are not, so only facts that later publications preserve may be used. Keys never leave
  a table, so a known security stays known and a full day stays full; a contradiction can
  only come from a batch that was approved since. `CountsAddUp` (accepted, skipped and
  rejected are the distinct keys) turns the rule about counts into `NoSilentChoice`.
* `PublishedMirrorsRaw`, on top of that invariant. `CandidatesFromRaw`: a candidate is what
  normalisation made of a raw row, and stays so when the master grows. `BatchIsWhole`: the
  candidates of an unpublished batch are all that normalisation accepts, at whatever moment
  one looks, since only price limits depend on the master. `RunsCover`: what a judgement does
  not write has its key in the table, and keys never leave it. Without rejections and with
  one answer per key, every raw row is skipped or accepted (`NothingRejected`, by counting).

`ProviderProofs`, for every value of the constants that satisfies `ProviderConstants`:

* `ProviderTypes`, `LimiterKeepsRate`, `LimiterWaitIsBounded`, `AttemptsAreBounded`.
* `LimiterImplementsBudget`: `Spec => KeepsBudget`, the refinement.
* `Windows` says that what the deque has lost is a Period old, `Waiting` that nobody extends
  the window a worker waits for. For the claims, `ClaimCounted` says that no worker carries a
  token above the slice's counter, nor reads a counter below its own claim, and `AttemptLeft`
  that a waiting slice, or a RUNNING one whose holder is gone, has been claimed fewer times
  than the bound allows: either the attempt number compared at the retry was below the limit,
  or the claim was ended by a death, a request or a lease that ran out, each of which
  raised the bound by one.

`ReadsProofs`, for every value of the constants that satisfies `DataReadsConstants`:

* `ReadTypes`, `ReplaysDoNotLookAhead`, `MetadataCovers`, `LineageShowsApproval`.
* The invariant says of every row, in the table or in the hands of a reader, that it is
  `Sound`: its stamp is not in the future, is that of the batch's one publication, and a
  quality run with its verdict is on record. `Keeps` says what no step of the market undoes:
  publications are final and time does not go back, so what a reader holds stays sound
  after the table has moved on.

Only model-checked: liveness (`ClaimResolved`, `NoStarvation`, `CandidateResolved`,
`DateIsScheduled`, `SliceSettles`), which TLAPS does not reach, and the violations.

## Plan

1. `CollectQueue`, `Governance`, `Scheduler`, `ProviderAccess`, `MarketData` with
   `Publication`, `DataReads`, and their proofs: done.
2. An abstract published store that `Governance` implements, and `LeaseQueue` for its stage
   tasks, with the theorems of both refinements: done.
3. Several DataItems in one scan of `Scheduler`.
4. The arithmetic of adjustment, alignment and paging against reference definitions, once a
   caller of the code reaches it.

## Not modelled

The command line, migrations, host scripts, logging and measurement of tables: they keep
no state that interleaves with anything. `build_snapshot`, `heartbeat_slice`,
`ensure_transition`, `recover_lost_workers`, `check_idempotency_or_force`, `write_edge` and
`traverse_lineage` have no caller outside tests, so no behaviour of the system has them.
The financial items are collected but governed by no stage. HTTP, the data frames of the
Tushare client and the planning of PostgreSQL's statements belong to others.
