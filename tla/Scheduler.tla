------------------------------ MODULE Scheduler ------------------------------
(***************************************************************************)
(* The scheduler processes of app/collect/scheduler.py, for one DataItem   *)
(* that is collected by trade date: the advisory lock that elects a        *)
(* leader, the scan from the item's watermark to the last date that is     *)
(* due, the tasks it inserts, the trade calendar it reads, and the         *)
(* watermark that closing tasks write.                                     *)
(*                                                                         *)
(* A scan is one READ COMMITTED transaction.  It is cut where another      *)
(* process can commit in between: after the lock, the watermark, the       *)
(* dates, each INSERT, and the unlock, which comes before the commit.  The *)
(* definitions of other items are scanned in the same transaction, and     *)
(* what they can do to this one is to raise an exception (Stop).           *)
(*                                                                         *)
(* How a task gets from creation to its close is the subject of module     *)
(* CollectQueue; here a row of collect_task is not closed yet, whatever    *)
(* its status is and whether or not it will be, or it has SUCCEEDED.       *)
(***************************************************************************)
EXTENDS Integers, FiniteSetsExt

CONSTANTS
  Schedulers,       \* scheduler processes, the ones of the command line too
  Workers,          \* workers that close tasks
  LastDay,          \* bound of the model: days are 1 .. LastDay
  OpenDays,         \* the trade dates among them
  YearEnd,          \* the last day of the year of a day
  Delay,            \* availability_rule.delay_days
  Calendars,        \* bound of the model: ranges of calendar tasks operators enqueue
  Requests,         \* bound of the model: tasks operators enqueue
  MaxStops,         \* bound of the model: deaths of scheduler processes
  NoScheduler, NoTask

Days     == 1 .. LastDay
RunTypes == {"INCREMENTAL", "BACKFILL", "RERUN"}
\* What the idempotency key of a task tells apart.
Tasks    == RunTypes \X Days

ASSUME SchedulerConstants ==
  /\ LastDay \in Nat \ {0} /\ OpenDays \subseteq Days
  /\ YearEnd \in [Days -> Days] /\ \A d \in Days : d <= YearEnd[d]
  /\ Delay \in Nat
  /\ Calendars \subseteq Days \X Days
  /\ Requests \subseteq Tasks
  /\ MaxStops \in Nat
  /\ NoScheduler \notin Schedulers /\ NoTask \notin Tasks

VARIABLES
  today,     \* the date in Shanghai
  window,    \* the time of day has passed availability_rule.available_after
  asked,     \* ranges for which there is a calendar task
  pages,     \* slices of calendar tasks that are not collected yet
  calendar,  \* open days among the rows of raw.tushare_trade_cal
  task,      \* the collect_task row of a key: "ABSENT", "OPEN", "SUCCEEDED"
  watermark, \* date of data_watermark.latest_collected_at, 0 if there is none
  lock,      \* the session that holds the advisory lock
  sc,        \* what each scheduler process holds in memory or uncommitted
  wk,        \* what each closing worker read
  stops      \* deaths of scheduler processes so far

calendarVars == <<asked, pages, calendar>>
taskVars     == <<task, watermark>>
vars == <<today, window, calendarVars, taskVars, lock, sc, wk, stops>>

TaskStatus == {"ABSENT", "OPEN", "SUCCEEDED"}
\* day, window: the clock read at the start.  after: the watermark read.
\* due: the dates to create.  todo: those not inserted yet.  mine: those
\* inserted and not committed.
Scan == [pc : {"asleep", "leader", "dates", "insert", "unlocked", "down"},
         day : Days, window : BOOLEAN, after : 0 .. LastDay,
         due : SUBSET Days, todo : SUBSET Days, mine : SUBSET Days]
Resting(pc) == [pc |-> pc, day |-> 1, window |-> FALSE, after |-> 0,
                due |-> {}, todo |-> {}, mine |-> {}]
Closing == [task : Tasks, seen : 0 .. LastDay] \cup {[task |-> NoTask, seen |-> 0]}
Idle == [task |-> NoTask, seen |-> 0]

Init ==
  /\ today = 1 /\ window = FALSE
  /\ asked = {} /\ pages = {} /\ calendar = {}
  /\ task = [t \in Tasks |-> "ABSENT"]
  /\ watermark = 0
  /\ lock = NoScheduler
  /\ sc = [s \in Schedulers |-> Resting("asleep")]
  /\ wk = [w \in Workers |-> Idle]
  /\ stops = 0
-----------------------------------------------------------------------------
(* The clock, and the trade calendar.                                      *)

Tick ==
  /\ IF window THEN today < LastDay /\ today' = today + 1 ELSE today' = today
  /\ window' = ~window
  /\ UNCHANGED <<calendarVars, taskVars, lock, sc, wk, stops>>

\* A slice ends with its range, or with the year of its first day.
SliceEnd(cursor, last) == Min({last, YearEnd[cursor]})
\* Mutant: the rest of the range is forgotten.
FirstYearOnly(first, last) == {<<first, SliceEnd(first, last)>>}
\* The slices of a range: one for each year, none across the end of a year.
PlanSlices(first, last) ==
  LET from[cursor \in 1 .. LastDay + 1] ==
        IF cursor > last THEN {}
        ELSE {<<cursor, SliceEnd(cursor, last)>>} \cup from[SliceEnd(cursor, last) + 1]
  IN from[first]

EnqueueTradeCalendar(r) ==
  /\ r \notin asked /\ r[1] <= r[2]
  /\ asked' = asked \cup {r}
  /\ pages' = pages \cup PlanSlices(r[1], r[2])
  /\ UNCHANGED <<today, window, calendar, taskVars, lock, sc, wk, stops>>

\* A slice of a calendar task succeeds; slices do so in any order.
CollectCalendar(p) ==
  /\ p \in pages
  /\ pages' = pages \ {p}
  /\ calendar' = calendar \cup (OpenDays \cap p[1] .. p[2])
  /\ UNCHANGED <<today, window, asked, taskVars, lock, sc, wk, stops>>
-----------------------------------------------------------------------------
(* schedule_once.                                                          *)

\* Mutant: a lock that two processes can hold.
TryShared(s) ==
  /\ sc[s].pc = "asleep"
  /\ lock' = s
  /\ sc' = [sc EXCEPT ![s].pc = "leader", ![s].day = today, ![s].window = window]
  /\ UNCHANGED <<today, window, calendarVars, taskVars, wk, stops>>
\* pg_try_advisory_lock: a process that does not get the lock records
\* STANDBY and sleeps on.
TryLock(s) ==
  /\ sc[s].pc = "asleep" /\ lock = NoScheduler
  /\ lock' = s
  /\ sc' = [sc EXCEPT ![s].pc = "leader", ![s].day = today, ![s].window = window]
  /\ UNCHANGED <<today, window, calendarVars, taskVars, wk, stops>>

ReadWatermark(s) ==
  /\ sc[s].pc = "leader"
  /\ sc' = [sc EXCEPT ![s].pc = "dates", ![s].after = watermark]
  /\ UNCHANGED <<today, window, calendarVars, taskVars, lock, wk, stops>>

\* _due_through_date and _open_trade_dates.
Candidates(s) == {d \in calendar : d > sc[s].after /\ d <= sc[s].day - Delay}
\* The first time only the latest date.
Wanted(s) ==
  {d \in Candidates(s) : sc[s].after = 0 => \A e \in Candidates(s) : e <= d}
\* Mutant: the time of day is ignored.
AnyTime(s) == Wanted(s)
\* Today is left out until the source is expected to have it.
Due(s) == {d \in Wanted(s) : d = sc[s].day => sc[s].window}

ReadDates(s) ==
  /\ sc[s].pc = "dates"
  /\ sc' = [sc EXCEPT ![s].pc = "insert", ![s].due = Due(s), ![s].todo = Due(s)]
  /\ UNCHANGED <<today, window, calendarVars, taskVars, lock, wk, stops>>

Key(d) == <<"INCREMENTAL", d>>
\* Mutant: an insert that does not see what is not committed.
NoWaiting(s, d) == d \in Days
\* The INSERT waits for a transaction that inserted the same key, and does
\* nothing when that one commits.
MayInsert(s, d) == \A o \in Schedulers \ {s} : d \notin sc[o].mine
\* Mutant: a key without the run type.
AnyRunType(d) == IF \E rt \in RunTypes : task[<<rt, d>>] # "ABSENT" THEN {} ELSE {d}
Inserted(d) == IF task[Key(d)] = "ABSENT" THEN {d} ELSE {}

\* enqueue_trade_date_item for the next date: the task and its first slice.
EnqueueDate(s, d) ==
  /\ sc[s].pc = "insert"
  /\ d \in sc[s].todo /\ \A e \in sc[s].todo : d <= e
  /\ MayInsert(s, d)
  /\ sc' = [sc EXCEPT ![s].todo = @ \ {d}, ![s].mine = @ \cup Inserted(d)]
  /\ UNCHANGED <<today, window, calendarVars, taskVars, lock, wk, stops>>

\* The finally clause: the lock belongs to the session, not the transaction.
Unlock(s) ==
  /\ sc[s].pc = "insert" /\ sc[s].todo = {}
  /\ lock' = NoScheduler
  /\ sc' = [sc EXCEPT ![s].pc = "unlocked"]
  /\ UNCHANGED <<today, window, calendarVars, taskVars, wk, stops>>

Commit(s) ==
  /\ sc[s].pc = "unlocked"
  /\ task' = [t \in Tasks |->
       IF t[1] = "INCREMENTAL" /\ t[2] \in sc[s].mine THEN "OPEN" ELSE task[t]]
  /\ sc' = [sc EXCEPT ![s] = Resting("asleep")]
  /\ UNCHANGED <<today, window, calendarVars, watermark, lock, wk, stops>>

\* Mutant: the lock outlives its session.
LockKept(s) == lock
LockAfterStop(s) == IF lock = s THEN NoScheduler ELSE lock
\* An exception, which ends run_scheduler, or the death of the process: the
\* transaction is rolled back, and the end of the session frees the lock.
Stop(s) ==
  /\ sc[s].pc # "down" /\ stops < MaxStops
  /\ sc' = [sc EXCEPT ![s] = Resting("down")]
  /\ lock' = LockAfterStop(s)
  /\ stops' = stops + 1
  /\ UNCHANGED <<today, window, calendarVars, taskVars, wk>>

\* The container is restarted (compose.dev.yml, restart: unless-stopped).
Restart(s) ==
  /\ sc[s].pc = "down"
  /\ sc' = [sc EXCEPT ![s] = Resting("asleep")]
  /\ UNCHANGED <<today, window, calendarVars, taskVars, lock, wk, stops>>
-----------------------------------------------------------------------------
(* Tasks: operators enqueue them, workers close them.                      *)

\* enqueue_trade_date_item from the API or the command line.  The code takes
\* any date; the model's operators ask for none of the future.
Enqueue(t) ==
  /\ t \in Requests /\ task[t] = "ABSENT" /\ t[2] <= today
  /\ t[1] = "INCREMENTAL" => \A s \in Schedulers : t[2] \notin sc[s].mine
  /\ task' = [task EXCEPT ![t] = "OPEN"]
  /\ UNCHANGED <<today, window, calendarVars, watermark, lock, sc, wk, stops>>

\* _finalize_task_if_complete finds no slice left and reads the watermark.
LoadWatermark(w, t) ==
  /\ wk[w] = Idle /\ task[t] = "OPEN"
  /\ wk' = [wk EXCEPT ![w] = [task |-> t, seen |-> watermark]]
  /\ UNCHANGED <<today, window, calendarVars, taskVars, lock, sc, stops>>

\* mutant: the date of the write
TodayWritten(w) == today
\* The column is written when the task's date differs from the value read.
Written(w) == LET d == wk[w].task[2] IN IF wk[w].seen = d THEN watermark ELSE d

CloseTask(w) ==
  /\ wk[w] # Idle
  /\ wk[w].seen = 0 => watermark = 0
  /\ task' = [task EXCEPT ![wk[w].task] = "SUCCEEDED"]
  /\ watermark' = Written(w)
  /\ wk' = [wk EXCEPT ![w] = Idle]
  /\ UNCHANGED <<today, window, calendarVars, lock, sc, stops>>

\* The close is rolled back: the worker dies, or the row of the watermark
\* that it inserts is there by now.
AbandonClose(w) ==
  /\ wk[w] # Idle
  /\ wk' = [wk EXCEPT ![w] = Idle]
  /\ UNCHANGED <<today, window, calendarVars, taskVars, lock, sc, stops>>
-----------------------------------------------------------------------------
Scanning(s) ==
  \/ TryLock(s) \/ ReadWatermark(s) \/ ReadDates(s)
  \/ \E d \in Days : EnqueueDate(s, d)
  \/ Unlock(s) \/ Commit(s)

Next ==
  \/ Tick
  \/ \E r \in Calendars : EnqueueTradeCalendar(r)
  \/ \E p \in Days \X Days : CollectCalendar(p)
  \/ \E s \in Schedulers : Scanning(s) \/ Stop(s) \/ Restart(s)
  \/ \E t \in Tasks : Enqueue(t)
  \/ \E w \in Workers : \/ \E t \in Tasks : LoadWatermark(w, t)
                        \/ CloseTask(w) \/ AbandonClose(w)

Spec == Init /\ [][Next]_vars

\* The loop of run_scheduler goes on, a stopped process is started again.
\* Clocks, workers and operators need not do anything.
Fairness == \A s \in Schedulers : WF_vars(Scanning(s)) /\ WF_vars(Restart(s))
FairSpec == Spec /\ Fairness
-----------------------------------------------------------------------------
(* Properties.                                                             *)

\* Every row and every process holds what the code can put there.
TypeOK ==
  /\ today \in Days /\ window \in BOOLEAN
  /\ asked \subseteq Calendars
  /\ calendar \subseteq OpenDays
  /\ task \in [Tasks -> TaskStatus]
  /\ watermark \in 0 .. LastDay
  /\ lock \in Schedulers \cup {NoScheduler}
  /\ sc \in [Schedulers -> Scan]
  /\ wk \in [Workers -> Closing]
  /\ stops \in 0 .. MaxStops

\* The lock covers the reads and inserts of a scan, and a scan whose inserts
\* wait for another transaction waits for one that has nothing left but its
\* commit: two scans never wait for each other, although the lock is released
\* before the commit.
WaitsForCommitOnly ==
  \A s, o \in Schedulers :
    s # o /\ sc[s].todo \cap sc[o].mine # {} => sc[o].pc = "unlocked"

\* A scan that is about to commit leaves no due date without a task, whatever
\* other scans were inserting, committing or rolling back meanwhile.
ScanIsComplete ==
  \A s \in Schedulers : sc[s].pc \in {"insert", "unlocked"} =>
    \A d \in sc[s].due \ sc[s].todo : task[Key(d)] # "ABSENT" \/ d \in sc[s].mine

\* A date is inserted by one open transaction at most, and by none once it has
\* a task: the key of a task is not entered twice.
InsertedOnce ==
  \A s \in Schedulers : \A d \in sc[s].mine :
    task[Key(d)] = "ABSENT" /\ \A o \in Schedulers : d \in sc[o].mine => o = s

\* No task of the scheduler is for a day without trading, one that is not over
\* its delay, or today before the source has it, even when a scan outlasts
\* midnight.
NothingEarly ==
  \A d \in Days :
    (task[Key(d)] # "ABSENT" /\ Key(d) \notin Requests) \/ (\E s \in Schedulers : d \in sc[s].mine)
    => d \in OpenDays /\ d + Delay <= today /\ (d = today => window)

\* The slices of a calendar task leave no hole: an open day of a range that was
\* asked for is in the calendar, or a slice that will bring it is waiting.
CalendarHasNoHole ==
  \A r \in asked : \A d \in OpenDays \cap r[1] .. r[2] :
    d \in calendar \/ \E p \in pages : d \in p[1] .. p[2]

\* The watermark is a date that was collected, whoever wrote it last.
WatermarkIsCollected ==
  watermark # 0 => \E rt \in RunTypes : task[<<rt, watermark>>] = "SUCCEEDED"

\* Once there is a watermark, a date after it that is over gets a task, or the
\* watermark passes it: dead leaders, locks and overlapping scans do not stop
\* the schedule.
DateIsScheduled ==
  \A d \in OpenDays :
    d \in calendar /\ watermark # 0 /\ d + Delay < today
    ~> task[Key(d)] # "ABSENT" \/ watermark >= d
=============================================================================
