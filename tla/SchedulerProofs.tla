--------------------------- MODULE SchedulerProofs ---------------------------
(***************************************************************************)
(* The scheduler's safety properties, for any number of schedulers,        *)
(* workers, days and tasks that operators enqueue.                         *)
(***************************************************************************)
EXTENDS Scheduler, WellFoundedInduction, TLAPS

USE SchedulerConstants

\* The lock is held from the start of a scan to its last insert.
LockCovers ==
  \A s \in Schedulers : sc[s].pc \in {"leader", "dates", "insert"} <=> lock = s

\* A scan has dates only while it inserts, and inserts no others.
ScanShape ==
  \A s \in Schedulers :
    /\ sc[s].todo \subseteq sc[s].due /\ sc[s].mine \subseteq sc[s].due
    /\ sc[s].pc # "insert" => sc[s].todo = {}
    /\ sc[s].pc \notin {"insert", "unlocked"} => sc[s].due = {}

\* A date is due at a time.
OnTime(d, day, time) == d \in OpenDays /\ d + Delay <= day /\ (d = day => time)

\* The clock of a scan is behind the clock, and its dates are due by it.
ScanTimes ==
  \A s \in Schedulers :
    /\ sc[s].day <= today /\ (sc[s].day = today /\ sc[s].window => window)
    /\ \A d \in sc[s].due : OnTime(d, sc[s].day, sc[s].window)

\* The tasks in the table were due.
TaskTimes ==
  \A d \in Days : task[Key(d)] # "ABSENT" /\ Key(d) \notin Requests => OnTime(d, today, window)

\* A worker closes a task that is there.
ClosesOpen == \A w \in Workers : wk[w] # Idle => task[wk[w].task] # "ABSENT"

SchedulerInv ==
  /\ TypeOK /\ LockCovers /\ ScanShape /\ ScanTimes /\ TaskTimes /\ ClosesOpen
  /\ ScanIsComplete /\ InsertedOnce /\ WatermarkIsCollected

\* What the parts say of the properties about open transactions.
LEMMA InvImplies ==
  ASSUME SchedulerInv
  PROVE  WaitsForCommitOnly /\ NothingEarly
<1>1. WaitsForCommitOnly
  <2> SUFFICES ASSUME NEW s \in Schedulers, NEW o \in Schedulers, s # o,
                      sc[s].todo \cap sc[o].mine # {}
               PROVE  sc[o].pc = "unlocked"
    BY DEF WaitsForCommitOnly
  <2>1. sc[s].pc = "insert" /\ lock = s
    BY DEF SchedulerInv, ScanShape, LockCovers
  <2>2. sc[o].pc \in {"insert", "unlocked"}
    BY DEF SchedulerInv, ScanShape
  <2> QED BY <2>1, <2>2 DEF SchedulerInv, LockCovers
<1>2. NothingEarly
  <2>1. ASSUME NEW d \in Days, NEW s \in Schedulers, d \in sc[s].mine
        PROVE  OnTime(d, today, window)
    <3>1. OnTime(d, sc[s].day, sc[s].window) /\ sc[s].day <= today
          /\ (sc[s].day = today /\ sc[s].window => window)
      BY <2>1 DEF SchedulerInv, ScanShape, ScanTimes
    <3>2. sc[s] \in Scan /\ today \in Days
      BY DEF SchedulerInv, TypeOK
    <3> QED BY <3>1, <3>2 DEF OnTime, Scan, Days
  <2> QED BY <2>1 DEF NothingEarly, SchedulerInv, TaskTimes, OnTime
<1> QED BY <1>1, <1>2

LEMMA InitInv == Init => SchedulerInv
<1> SUFFICES ASSUME Init PROVE SchedulerInv
  OBVIOUS
<1> USE DEF Init, Resting
<1>0. 1 \in Days
  BY DEF Days
<1>1. \A pc \in {"asleep", "down"} : Resting(pc) \in Scan
  BY <1>0 DEF Scan
<1>2. TypeOK
  <2>1. sc \in [Schedulers -> Scan] /\ wk \in [Workers -> Closing]
    BY <1>1 DEF Closing, Idle
  <2>2. task \in [Tasks -> TaskStatus]
    BY DEF TaskStatus
  <2>3. watermark \in 0 .. LastDay /\ stops \in 0 .. MaxStops
    OBVIOUS
  <2> QED BY <1>0, <2>1, <2>2, <2>3 DEF TypeOK
<1> QED BY <1>2 DEF SchedulerInv, ClosesOpen, LockCovers, ScanShape, ScanTimes, TaskTimes, ScanIsComplete,
          InsertedOnce, WatermarkIsCollected, OnTime, Tasks, RunTypes, Key
-----------------------------------------------------------------------------
(* The slices of a range.  The recursion goes from a day to later ones, so *)
(* what holds of all its values is shown from the last day downwards.      *)

\* A nonempty set of naturals has a least element.
LEMMA LeastNatural ==
  ASSUME NEW T \in SUBSET Nat, T # {}
  PROVE  \E n \in T : \A m \in T : n <= m
<1> DEFINE R == OpToRel(<, Nat)
<1>1. \A m, n \in Nat : <<m, n>> \in R <=> m < n
  BY DEF OpToRel
<1>2. IsWellFoundedOn(R, Nat)
  BY NatLessThanWellFounded
<1> HIDE DEF R
<1>3. PICK n \in T : \A m \in T : ~ (<<m, n>> \in R)
  BY <1>2, WFMin
<1>4. \A m \in T : ~ (m < n)
  BY <1>1, <1>3
<1> QED BY <1>4

\* Downward induction, for a set of days.
LEMMA Downward ==
  ASSUME NEW top \in Nat, NEW S,
         \A n \in 1 .. top : (\A m \in n + 1 .. top : m \in S) => n \in S
  PROVE  1 .. top \subseteq S
<1> SUFFICES ASSUME ~ (1 .. top \subseteq S) PROVE FALSE
  OBVIOUS
<1> DEFINE T == {i \in 0 .. top : top - i \in 1 .. top /\ top - i \notin S}
<1>1. PICK n \in 1 .. top : n \notin S
  OBVIOUS
<1>2. top - n \in T
  BY <1>1
<1>3. PICK i \in T : \A j \in T : i <= j
  <2>1. T \in SUBSET Nat
    OBVIOUS
  <2> HIDE DEF T
  <2>2. T # {}
    BY <1>2
  <2> QED BY <2>1, <2>2, LeastNatural
<1>4. ASSUME NEW m \in (top - i) + 1 .. top PROVE m \in S
  <2>1. m \in 1 .. top /\ top - m < i /\ top - m \in 0 .. top /\ top - (top - m) = m
    BY <1>3
  <2>2. top - m \notin T
    BY <1>3, <2>1
  <2> QED BY <2>1, <2>2
<1>5. top - i \in 1 .. top /\ top - i \notin S
  BY <1>3
<1> QED BY <1>4, <1>5

LEMMA SliceEndFact ==
  ASSUME NEW last \in Days, NEW cursor \in Days, cursor <= last
  PROVE  /\ SliceEnd(cursor, last) \in cursor .. last
         /\ SliceEnd(cursor, last) <= YearEnd[cursor]
<1>1. YearEnd[cursor] \in Days /\ cursor <= YearEnd[cursor]
  OBVIOUS
<1>2. \E x \in {last, YearEnd[cursor]} : \A y \in {last, YearEnd[cursor]} : x <= y
  BY <1>1 DEF Days
<1>3. /\ SliceEnd(cursor, last) \in {last, YearEnd[cursor]}
      /\ \A y \in {last, YearEnd[cursor]} : SliceEnd(cursor, last) <= y
  BY <1>2 DEF SliceEnd, Min
<1> QED BY <1>1, <1>3 DEF Days

Cursors == 1 .. LastDay + 1
\* One turn of the loop, with the slices of the later turns in f.
Turn(f, cursor, last) ==
  IF cursor > last THEN {}
  ELSE {<<cursor, SliceEnd(cursor, last)>>} \cup f[SliceEnd(cursor, last) + 1]

Unfolds(f, last) == f = [cursor \in Cursors |-> Turn(f, cursor, last)]

\* The loop ends, whatever the range: its equation has a solution.
LEMMA SlicesExist == ASSUME NEW last \in Days PROVE \E f : Unfolds(f, last)
<1> DEFINE From(n) == n .. LastDay + 1
           Sol(f, n) == \A c \in From(n) : f[c] = Turn(f, c, last)
           S == {n \in Cursors : \E f : f = [c \in Cursors |-> f[c]] /\ Sol(f, n)}
<1>0. LastDay \in Nat \ {0} /\ last \in 1 .. LastDay
  BY DEF Days
<1>1. ASSUME NEW n \in Cursors, \A m \in n + 1 .. LastDay + 1 : m \in S
      PROVE  n \in S
  <2>1. PICK g : g = [c \in Cursors |-> g[c]] /\ Sol(g, n + 1)
    <3>1. CASE n + 1 \in Cursors
      BY <3>1, <1>1, <1>0 DEF Cursors
    <3>2. CASE n + 1 \notin Cursors
      <4> DEFINE h == [c \in Cursors |-> {}]
      <4>1. From(n + 1) = {}
        BY <3>2, <1>0 DEF Cursors
      <4>2. h = [c \in Cursors |-> h[c]] /\ Sol(h, n + 1)
        BY <4>1
      <4> QED BY <4>2
    <3> QED BY <3>1, <3>2
  <2> DEFINE f == [g EXCEPT ![n] = Turn(g, n, last)]
  <2>2. f = [c \in Cursors |-> f[c]] /\ \A c \in Cursors : c # n => f[c] = g[c]
    BY <2>1
  <2>3. f[n] = Turn(g, n, last)
    BY <2>1
  <2> HIDE DEF f
  <2>4. ASSUME NEW c \in From(n) PROVE Turn(f, c, last) = Turn(g, c, last)
    <3>1. CASE c > last
      BY <3>1 DEF Turn
    <3>2. CASE ~ (c > last)
      <4>1. c \in Days /\ c <= last
        BY <1>0, <3>2 DEF Cursors, Days
      <4>2. SliceEnd(c, last) \in c .. last /\ n <= c
        BY <4>1, SliceEndFact
      <4>3. SliceEnd(c, last) + 1 \in Cursors /\ SliceEnd(c, last) + 1 # n
        BY <4>1, <4>2, <1>0 DEF Cursors, Days
      <4> QED BY <4>3, <2>2 DEF Turn
    <3> QED BY <3>1, <3>2
  <2>5. Sol(f, n)
    <3> SUFFICES ASSUME NEW c \in From(n) PROVE f[c] = Turn(f, c, last)
      OBVIOUS
    <3>1. CASE c = n
      BY <3>1, <2>3, <2>4
    <3>2. CASE c # n
      <4>1. c \in From(n + 1) /\ c \in Cursors
        BY <3>2, <1>0 DEF Cursors
      <4> QED BY <3>2, <4>1, <2>1, <2>2, <2>4
    <3> QED BY <3>1, <3>2
  <2> QED BY <2>2, <2>5
<1>2. Cursors \subseteq S
  <2>1. LastDay + 1 \in Nat
    BY <1>0
  <2> HIDE DEF S
  <2> QED BY <1>1, <2>1, Downward DEF Cursors
<1>3. 1 \in Cursors /\ From(1) = Cursors
  BY <1>0 DEF Cursors
<1>4. PICK f : f = [c \in Cursors |-> f[c]] /\ Sol(f, 1)
  BY <1>2, <1>3
<1>5. Unfolds(f, last)
  BY <1>3, <1>4 DEF Unfolds
<1> QED BY <1>5

LEMMA PlanUnfolds ==
  ASSUME NEW first, NEW last \in Days
  PROVE  \E f : Unfolds(f, last) /\ PlanSlices(first, last) = f[first]
<1> DEFINE F == CHOOSE f : Unfolds(f, last)
<1>1. Unfolds(F, last)
  BY SlicesExist
<1>2. PlanSlices(first, last) = F[first]
  BY DEF PlanSlices, Unfolds, Turn, SliceEnd, Cursors
<1> HIDE DEF F
<1> QED BY <1>1, <1>2

\* Every day of the range is in exactly one slice; no slice leaves the range
\* or crosses the end of a year.
THEOREM SlicesPartitionRange ==
  ASSUME NEW first \in Days, NEW last \in Days
  PROVE  /\ \A d \in first .. last : \E p \in PlanSlices(first, last) : d \in p[1] .. p[2]
         /\ \A p, q \in PlanSlices(first, last) :
              p = q \/ (p[1] .. p[2]) \cap (q[1] .. q[2]) = {}
         /\ \A p \in PlanSlices(first, last) :
              /\ p \in Days \X Days /\ first <= p[1] /\ p[1] <= p[2] /\ p[2] <= last
              /\ p[2] <= YearEnd[p[1]]
<1>1. PICK f : Unfolds(f, last) /\ PlanSlices(first, last) = f[first]
  BY PlanUnfolds
<1> DEFINE
  Within(c) == \A p \in f[c] : /\ p \in Days \X Days /\ c <= p[1] /\ p[1] <= p[2] /\ p[2] <= last
                               /\ p[2] <= YearEnd[p[1]]
  Covers(c) == \A d \in c .. last : \E p \in f[c] : d \in p[1] .. p[2]
  Disjoint(c) == \A p, q \in f[c] : p = q \/ (p[1] .. p[2]) \cap (q[1] .. q[2]) = {}
  S == {c \in Cursors : Within(c) /\ Covers(c) /\ Disjoint(c)}
<1>2. LastDay \in Nat \ {0} /\ last \in 1 .. LastDay
  BY DEF Days
<1>3. ASSUME NEW c \in Cursors, \A m \in c + 1 .. LastDay + 1 : m \in S
      PROVE  c \in S
  <2>1. f[c] = Turn(f, c, last)
    BY <1>1 DEF Unfolds
  <2>2. CASE c > last
    <3>1. f[c] = {} /\ c .. last = {}
      BY <2>1, <2>2, <1>2 DEF Turn, Cursors
    <3> QED BY <3>1
  <2>3. CASE ~ (c > last)
    <3> DEFINE e == SliceEnd(c, last)
    <3>1. c \in Days /\ c <= last
      BY <1>2, <2>3 DEF Cursors, Days
    <3>2. e \in c .. last /\ e <= YearEnd[c]
      BY <3>1, SliceEndFact
    <3>3. f[c] = {<<c, e>>} \cup f[e + 1]
      BY <2>1, <2>3 DEF Turn
    <3> HIDE DEF e
    <3>4. e + 1 \in c + 1 .. LastDay + 1 /\ e \in Days
      BY <3>1, <3>2, <1>2 DEF Days
    <3>5. Within(e + 1) /\ Covers(e + 1) /\ Disjoint(e + 1)
      BY <1>3, <3>4
    <3>6. Within(c)
      <4> SUFFICES ASSUME NEW p \in f[c]
                   PROVE  /\ p \in Days \X Days /\ c <= p[1] /\ p[1] <= p[2] /\ p[2] <= last
                          /\ p[2] <= YearEnd[p[1]]
        OBVIOUS
      <4>1. CASE p = <<c, e>>
        BY <4>1, <3>1, <3>2, <3>4
      <4>2. CASE p \in f[e + 1]
        <5>1. /\ p \in Days \X Days /\ e + 1 <= p[1] /\ p[1] <= p[2] /\ p[2] <= last
              /\ p[2] <= YearEnd[p[1]]
          BY <4>2, <3>5
        <5>2. p[1] \in Days
          BY <5>1
        <5> QED BY <5>1, <5>2, <3>1, <3>2 DEF Days
      <4> QED BY <4>1, <4>2, <3>3
    <3>7. Covers(c)
      <4> SUFFICES ASSUME NEW d \in c .. last PROVE \E p \in f[c] : d \in p[1] .. p[2]
        OBVIOUS
      <4>1. CASE d <= e
        <5>1. d \in <<c, e>>[1] .. <<c, e>>[2]
          BY <4>1, <3>1, <3>2 DEF Days
        <5> QED BY <5>1, <3>3
      <4>2. CASE ~ (d <= e)
        <5>1. d \in e + 1 .. last
          BY <4>2, <3>1, <3>2, <1>2 DEF Days
        <5>2. PICK p \in f[e + 1] : d \in p[1] .. p[2]
          BY <5>1, <3>5
        <5> QED BY <5>2, <3>3
      <4> QED BY <4>1, <4>2
    <3>8. Disjoint(c)
      <4>1. ASSUME NEW q \in f[e + 1] PROVE (c .. e) \cap (q[1] .. q[2]) = {}
        <5>1. q \in Days \X Days /\ e + 1 <= q[1]
          BY <4>1, <3>5
        <5>2. q[1] \in Int /\ q[2] \in Int
          BY <5>1 DEF Days
        <5> QED BY <5>1, <5>2, <3>1, <3>4 DEF Days
      <4>2. <<c, e>>[1] = c /\ <<c, e>>[2] = e
        OBVIOUS
      <4> SUFFICES ASSUME NEW p \in f[c], NEW q \in f[c], p # q
                   PROVE  (p[1] .. p[2]) \cap (q[1] .. q[2]) = {}
        OBVIOUS
      <4>3. CASE p = <<c, e>>
        BY <4>1, <4>2, <4>3, <3>3
      <4>4. CASE q = <<c, e>>
        BY <4>1, <4>2, <4>4, <3>3
      <4>5. CASE p \in f[e + 1] /\ q \in f[e + 1]
        BY <4>5, <3>5
      <4> QED BY <4>3, <4>4, <4>5, <3>3
    <3> QED BY <3>6, <3>7, <3>8
  <2> QED BY <2>2, <2>3
<1>4. Cursors \subseteq S
  <2>1. LastDay + 1 \in Nat
    BY <1>2
  <2> HIDE DEF S
  <2> QED BY <1>3, <2>1, Downward DEF Cursors
<1>5. first \in Cursors
  BY <1>2 DEF Cursors, Days
<1>6. Within(first) /\ Covers(first) /\ Disjoint(first)
  BY <1>4, <1>5
<1> QED BY <1>1, <1>6
-----------------------------------------------------------------------------
(* Steps that no scheduler takes.                                          *)

LEMMA TickInv == ASSUME SchedulerInv, Tick PROVE SchedulerInv'
<1> USE DEF Tick, calendarVars, taskVars
<1>1. TypeOK'
  BY DEF SchedulerInv, TypeOK, Days
<1>2. today \in Days /\ today' \in Days /\ today <= today' /\ (today = today' /\ window => window')
  BY DEF SchedulerInv, TypeOK, Days
<1>3. ASSUME NEW d \in Days, OnTime(d, today, window)
      PROVE  OnTime(d, today, window)'
  BY <1>2, <1>3 DEF OnTime, Days
<1>4. TaskTimes'
  BY <1>3 DEF SchedulerInv, TaskTimes, Key
<1>5. ScanTimes'
  <2> SUFFICES ASSUME NEW s \in Schedulers
               PROVE  /\ sc[s].day <= today' /\ (sc[s].day = today' /\ sc[s].window => window')
                      /\ \A d \in sc[s].due : OnTime(d, sc[s].day, sc[s].window)
    BY DEF ScanTimes, OnTime
  <2>1. sc[s].day \in Days /\ sc[s].day <= today /\ (sc[s].day = today /\ sc[s].window => window)
    BY DEF SchedulerInv, TypeOK, Scan, ScanTimes
  <2>2. \A d \in sc[s].due : OnTime(d, sc[s].day, sc[s].window)
    BY DEF SchedulerInv, ScanTimes
  <2> QED BY <1>2, <2>1, <2>2 DEF Days
<1> QED BY <1>1, <1>4, <1>5 DEF SchedulerInv, LockCovers, ScanShape, ScanIsComplete,
          InsertedOnce, WatermarkIsCollected, Key, ClosesOpen

\* What the calendar's, the operators' and the workers' steps have in common.
LEMMA RowStep ==
  ASSUME SchedulerInv, TypeOK', UNCHANGED <<today, window, lock, sc>>,
         \A t \in Tasks : task'[t] = "ABSENT" <=> task[t] = "ABSENT",
         WatermarkIsCollected', ClosesOpen'
  PROVE  SchedulerInv'
<1>1. \A d \in Days : Key(d) \in Tasks
  BY DEF Key, Tasks, RunTypes
<1>2. TaskTimes'
  BY <1>1 DEF SchedulerInv, TaskTimes, OnTime, Key
<1>3. ScanIsComplete' /\ InsertedOnce'
  <2>1. \A s \in Schedulers : sc[s].due \subseteq Days /\ sc[s].mine \subseteq Days
    BY DEF SchedulerInv, TypeOK, Scan
  <2> QED BY <1>1, <2>1 DEF SchedulerInv, ScanIsComplete, InsertedOnce, Key
<1> QED BY <1>2, <1>3 DEF SchedulerInv, LockCovers, ScanShape, ScanTimes, OnTime

LEMMA CalendarInv ==
  ASSUME SchedulerInv,
         (\E r \in Calendars : EnqueueTradeCalendar(r)) \/ (\E p \in Days \X Days : CollectCalendar(p))
  PROVE  SchedulerInv'
<1>1. TypeOK' /\ UNCHANGED <<today, window, lock, sc, taskVars>>
  BY DEF SchedulerInv, TypeOK, EnqueueTradeCalendar, CollectCalendar, taskVars
<1>2. ClosesOpen' /\ WatermarkIsCollected'
  BY <1>1 DEF SchedulerInv, ClosesOpen, WatermarkIsCollected, Idle, taskVars,
       EnqueueTradeCalendar, CollectCalendar
<1> QED BY <1>1, <1>2, RowStep DEF taskVars

LEMMA EnqueueInv == ASSUME SchedulerInv, NEW t \in Tasks, Enqueue(t) PROVE SchedulerInv'
<1> USE DEF Enqueue, calendarVars
<1>1. TypeOK'
  BY DEF SchedulerInv, TypeOK, TaskStatus
<1>2. task \in [Tasks -> TaskStatus] /\ \A d \in Days : Key(d) \in Tasks
  BY DEF SchedulerInv, TypeOK, Key, Tasks, RunTypes
<1>3. \A u \in Tasks : u # t => task'[u] = task[u]
  BY <1>2
<1>4. task'[t] = "OPEN" /\ task[t] = "ABSENT" /\ t \in Requests
  BY <1>2
<1>5. TaskTimes'
  BY <1>2, <1>3, <1>4 DEF SchedulerInv, TaskTimes, OnTime, Key
<1>6. \A s \in Schedulers : sc[s].due \subseteq Days /\ sc[s].mine \subseteq Days
  BY DEF SchedulerInv, TypeOK, Scan
<1>7. ScanIsComplete'
  BY <1>2, <1>3, <1>4, <1>6 DEF SchedulerInv, ScanIsComplete, Key
<1>8. InsertedOnce'
  <2> SUFFICES ASSUME NEW s \in Schedulers, NEW d \in sc[s].mine
               PROVE  task'[Key(d)] = "ABSENT" /\ \A o \in Schedulers : d \in sc[o].mine => o = s
    BY DEF InsertedOnce, Key
  <2>1. d \in Days /\ task[Key(d)] = "ABSENT" /\ \A o \in Schedulers : d \in sc[o].mine => o = s
    BY <1>6 DEF SchedulerInv, InsertedOnce
  <2>2. Key(d) # t
    BY <2>1 DEF Key
  <2> QED BY <1>2, <1>3, <2>1, <2>2
<1>9. WatermarkIsCollected'
  <2>1. ASSUME watermark # 0 PROVE \E rt \in RunTypes : task'[<<rt, watermark>>] = "SUCCEEDED"
    <3>1. PICK rt \in RunTypes : task[<<rt, watermark>>] = "SUCCEEDED"
      BY <2>1 DEF SchedulerInv, WatermarkIsCollected
    <3>2. <<rt, watermark>> \in Tasks
      BY <2>1 DEF SchedulerInv, TypeOK, Tasks, Days
    <3> QED BY <1>3, <1>4, <3>1, <3>2
  <2> QED BY <2>1 DEF WatermarkIsCollected
<1>10. ClosesOpen'
  <2> SUFFICES ASSUME NEW w \in Workers, wk[w] # Idle PROVE task'[wk[w].task] # "ABSENT"
    BY DEF ClosesOpen, Idle
  <2>1. wk[w].task \in Tasks /\ task[wk[w].task] # "ABSENT"
    BY DEF SchedulerInv, TypeOK, Closing, Idle, ClosesOpen
  <2> QED BY <1>3, <1>4, <2>1
<1> QED BY <1>1, <1>5, <1>7, <1>8, <1>9, <1>10
        DEF SchedulerInv, LockCovers, ScanShape, ScanTimes, OnTime

LEMMA LoadInv ==
  ASSUME SchedulerInv, NEW w \in Workers, NEW t \in Tasks, LoadWatermark(w, t)
  PROVE  SchedulerInv'
<1> USE DEF LoadWatermark, calendarVars, taskVars
<1>1. TypeOK'
  BY DEF SchedulerInv, TypeOK, Closing, Idle
<1>2. ClosesOpen'
  <2> SUFFICES ASSUME NEW v \in Workers, wk'[v] # Idle PROVE task[wk'[v].task] # "ABSENT"
    BY DEF ClosesOpen, Idle
  <2>1. CASE v = w
    BY <2>1 DEF SchedulerInv, TypeOK
  <2>2. CASE v # w
    BY <2>2 DEF SchedulerInv, TypeOK, ClosesOpen
  <2> QED BY <2>1, <2>2
<1> QED BY <1>1, <1>2, RowStep DEF SchedulerInv, WatermarkIsCollected

\* A worker is done with its close, and the task it read is there.
LEMMA CloserDone ==
  ASSUME SchedulerInv, NEW w \in Workers, wk' = [wk EXCEPT ![w] = Idle],
         \A t \in Tasks : task[t] # "ABSENT" => task'[t] # "ABSENT"
  PROVE  wk' \in [Workers -> Closing] /\ ClosesOpen'
<1>1. wk' \in [Workers -> Closing]
  BY DEF SchedulerInv, TypeOK, Closing, Idle
<1> SUFFICES ASSUME NEW v \in Workers, wk'[v] # Idle PROVE task'[wk'[v].task] # "ABSENT"
  BY <1>1 DEF ClosesOpen, Idle
<1>2. v # w /\ wk'[v] = wk[v]
  BY DEF SchedulerInv, TypeOK
<1>3. wk[v].task \in Tasks /\ task[wk[v].task] # "ABSENT"
  BY <1>2 DEF SchedulerInv, TypeOK, Closing, Idle, ClosesOpen
<1> QED BY <1>2, <1>3

LEMMA AbandonInv ==
  ASSUME SchedulerInv, NEW w \in Workers, AbandonClose(w)
  PROVE  SchedulerInv'
<1> USE DEF AbandonClose, calendarVars, taskVars
<1>1. wk' \in [Workers -> Closing] /\ ClosesOpen'
  BY CloserDone
<1>2. TypeOK'
  BY <1>1 DEF SchedulerInv, TypeOK
<1> QED BY <1>1, <1>2, RowStep DEF SchedulerInv, WatermarkIsCollected

LEMMA CloseInv ==
  ASSUME SchedulerInv, NEW w \in Workers, CloseTask(w)
  PROVE  SchedulerInv'
<1> USE DEF CloseTask, calendarVars
<1>1. PICK t \in Tasks : wk[w].task = t /\ task[t] # "ABSENT"
  BY DEF SchedulerInv, TypeOK, Closing, Idle, ClosesOpen
<1>2. PICK rt \in RunTypes, d \in Days : t = <<rt, d>>
  BY DEF Tasks
<1>3. task \in [Tasks -> TaskStatus] /\ task' = [task EXCEPT ![t] = "SUCCEEDED"]
  BY <1>1 DEF SchedulerInv, TypeOK
<1>4. watermark' = watermark \/ watermark' = d
  BY <1>1, <1>2 DEF Written
<1>5. ClosesOpen' /\ wk' \in [Workers -> Closing]
  BY <1>3, CloserDone
<1>6. TypeOK'
  <2>1. task' \in [Tasks -> TaskStatus]
    BY <1>3 DEF TaskStatus
  <2>2. watermark' \in 0 .. LastDay
    BY <1>4 DEF SchedulerInv, TypeOK, Days
  <2> QED BY <1>5, <2>1, <2>2 DEF SchedulerInv, TypeOK
<1>7. WatermarkIsCollected'
  <2>1. ASSUME watermark' # 0, watermark' = watermark
        PROVE  \E r \in RunTypes : task'[<<r, watermark'>>] = "SUCCEEDED"
    <3>1. PICK r \in RunTypes : task[<<r, watermark>>] = "SUCCEEDED"
      BY <2>1 DEF SchedulerInv, WatermarkIsCollected
    <3>2. <<r, watermark>> \in Tasks
      BY <2>1 DEF SchedulerInv, TypeOK, Tasks, Days
    <3> QED BY <1>3, <2>1, <3>1, <3>2
  <2>2. ASSUME watermark' = d
        PROVE  \E r \in RunTypes : task'[<<r, watermark'>>] = "SUCCEEDED"
    BY <1>2, <1>3, <2>2
  <2> QED BY <1>4, <2>1, <2>2 DEF WatermarkIsCollected
<1>8. \A u \in Tasks : task'[u] = "ABSENT" <=> task[u] = "ABSENT"
  BY <1>1, <1>3
<1> QED BY <1>5, <1>6, <1>7, <1>8, RowStep
-----------------------------------------------------------------------------
(* Steps of a scheduler.                                                   *)

\* A scheduler's step to r that leaves the rows alone, with r as SchedulerInv
\* requires it of one scheduler.
ScanMove(s, r) ==
  /\ sc' = [sc EXCEPT ![s] = r] /\ r \in Scan
  /\ UNCHANGED <<today, window, asked, calendar, task, watermark, wk>>
  /\ lock' \in Schedulers \cup {NoScheduler} /\ stops' \in 0 .. MaxStops
  /\ \A o \in Schedulers \ {s} : lock' = o <=> lock = o
  /\ r.pc \in {"leader", "dates", "insert"} <=> lock' = s
  /\ r.todo \subseteq r.due /\ r.mine \subseteq r.due
  /\ r.pc # "insert" => r.todo = {}
  /\ r.pc \notin {"insert", "unlocked"} => r.due = {}
  /\ r.day <= today /\ (r.day = today /\ r.window => window)
  /\ \A d \in r.due : OnTime(d, r.day, r.window)
  /\ \A d \in r.due \ r.todo : task[Key(d)] # "ABSENT" \/ d \in r.mine
  /\ \A d \in r.mine : task[Key(d)] = "ABSENT" /\ \A o \in Schedulers \ {s} : d \notin sc[o].mine

\* Such a step preserves the parts about the rows, and what the other
\* schedulers hold stays right.
LEMMA ScanStep ==
  ASSUME SchedulerInv, NEW s \in Schedulers, NEW r, ScanMove(s, r)
  PROVE  SchedulerInv'
<1> USE DEF ScanMove
<1>1. sc' \in [Schedulers -> Scan] /\ sc'[s] = r /\ \A o \in Schedulers \ {s} : sc'[o] = sc[o]
  BY DEF SchedulerInv, TypeOK
<1>2. TypeOK'
  BY <1>1 DEF SchedulerInv, TypeOK
<1>3. LockCovers'
  BY <1>1 DEF SchedulerInv, LockCovers
<1>4. ScanShape'
  BY <1>1 DEF SchedulerInv, ScanShape
<1>5. ScanTimes'
  BY <1>1 DEF SchedulerInv, ScanTimes, OnTime
<1>6. TaskTimes' /\ ClosesOpen' /\ WatermarkIsCollected'
  BY DEF SchedulerInv, TaskTimes, ClosesOpen, WatermarkIsCollected, OnTime, Key, Idle
<1>7. ScanIsComplete'
  <2> SUFFICES ASSUME NEW o \in Schedulers, sc'[o].pc \in {"insert", "unlocked"},
                      NEW d \in sc'[o].due \ sc'[o].todo
               PROVE  task[Key(d)] # "ABSENT" \/ d \in sc'[o].mine
    BY DEF ScanIsComplete, Key
  <2>1. CASE o = s
    BY <1>1, <2>1
  <2>2. CASE o # s
    BY <1>1, <2>2 DEF SchedulerInv, ScanIsComplete
  <2> QED BY <2>1, <2>2
<1>8. InsertedOnce'
  <2> SUFFICES ASSUME NEW o \in Schedulers, NEW d \in sc'[o].mine
               PROVE  task[Key(d)] = "ABSENT" /\ \A q \in Schedulers : d \in sc'[q].mine => q = o
    BY DEF InsertedOnce, Key
  <2>1. CASE o = s
    BY <1>1, <2>1
  <2>2. CASE o # s
    BY <1>1, <2>2 DEF SchedulerInv, InsertedOnce
  <2> QED BY <2>1, <2>2
<1> QED BY <1>2, <1>3, <1>4, <1>5, <1>6, <1>7, <1>8 DEF SchedulerInv
LEMMA TryLockInv == ASSUME SchedulerInv, NEW s \in Schedulers, TryLock(s) PROVE SchedulerInv'
<1> USE DEF TryLock, calendarVars, taskVars
<1> DEFINE r == [sc[s] EXCEPT !.pc = "leader", !.day = today, !.window = window]
<1>1. sc[s] \in Scan /\ today \in Days /\ window \in BOOLEAN /\ NoScheduler \notin Schedulers
  BY DEF SchedulerInv, TypeOK
<1>2. r \in Scan
  BY <1>1 DEF Scan
<1>3. sc' = [sc EXCEPT ![s] = r]
  BY DEF SchedulerInv, TypeOK
<1>4. /\ r.pc = "leader" /\ r.day = today /\ r.window = window /\ r.due = sc[s].due
      /\ r.todo = sc[s].todo /\ r.mine = sc[s].mine
  BY <1>1 DEF Scan
<1>5. sc[s].due = {} /\ sc[s].todo = {} /\ sc[s].mine = {}
  BY DEF SchedulerInv, ScanShape
<1> HIDE DEF r
<1>6. lock' = s /\ \A o \in Schedulers \ {s} : lock' # o /\ lock # o
  BY <1>1
<1>7. today <= today /\ stops' \in 0 .. MaxStops
  BY <1>1 DEF SchedulerInv, TypeOK, Days
<1>move. ScanMove(s, r)
  BY <1>2, <1>3, <1>4, <1>5, <1>6, <1>7 DEF ScanMove
<1> QED BY <1>move, ScanStep

LEMMA ReadWatermarkInv ==
  ASSUME SchedulerInv, NEW s \in Schedulers, ReadWatermark(s)
  PROVE  SchedulerInv'
<1> USE DEF ReadWatermark, calendarVars, taskVars
<1> DEFINE r == [sc[s] EXCEPT !.pc = "dates", !.after = watermark]
<1>1. sc[s] \in Scan /\ watermark \in 0 .. LastDay
  BY DEF SchedulerInv, TypeOK
<1>2. r \in Scan
  BY <1>1 DEF Scan
<1>3. sc' = [sc EXCEPT ![s] = r]
  BY DEF SchedulerInv, TypeOK
<1>4. /\ r.pc = "dates" /\ r.day = sc[s].day /\ r.window = sc[s].window /\ r.due = sc[s].due
      /\ r.todo = sc[s].todo /\ r.mine = sc[s].mine
  BY <1>1 DEF Scan
<1>5. sc[s].due = {} /\ sc[s].todo = {} /\ sc[s].mine = {} /\ lock = s
  BY DEF SchedulerInv, ScanShape, LockCovers
<1>6. sc[s].day <= today /\ (sc[s].day = today /\ sc[s].window => window)
  BY DEF SchedulerInv, ScanTimes
<1> HIDE DEF r
<1>move. ScanMove(s, r)
  BY <1>1, <1>2, <1>3, <1>4, <1>5, <1>6 DEF ScanMove, SchedulerInv, TypeOK
<1> QED BY <1>move, ScanStep

LEMMA ReadDatesInv == ASSUME SchedulerInv, NEW s \in Schedulers, ReadDates(s) PROVE SchedulerInv'
<1> USE DEF ReadDates, calendarVars, taskVars
<1> DEFINE r == [sc[s] EXCEPT !.pc = "insert", !.due = Due(s), !.todo = Due(s)]
<1>1. sc[s] \in Scan /\ calendar \subseteq OpenDays /\ OpenDays \subseteq Days
  BY DEF SchedulerInv, TypeOK
<1>2. \A d \in Due(s) : d \in Days /\ OnTime(d, sc[s].day, sc[s].window)
  <2> SUFFICES ASSUME NEW d \in Due(s)
               PROVE  d \in Days /\ OnTime(d, sc[s].day, sc[s].window)
    OBVIOUS
  <2>1. d \in Days /\ d \in OpenDays /\ d <= sc[s].day - Delay /\ (d = sc[s].day => sc[s].window)
    BY <1>1 DEF Due, Wanted, Candidates
  <2>2. sc[s].day \in Days
    BY <1>1 DEF Scan
  <2> QED BY <2>1, <2>2 DEF OnTime, Days
<1>3. r \in Scan
  BY <1>1, <1>2 DEF Scan
<1>4. sc' = [sc EXCEPT ![s] = r]
  BY DEF SchedulerInv, TypeOK
<1>5. /\ r.pc = "insert" /\ r.day = sc[s].day /\ r.window = sc[s].window /\ r.due = Due(s)
      /\ r.todo = Due(s) /\ r.mine = sc[s].mine
  BY <1>1 DEF Scan
<1>6. sc[s].mine = {} /\ lock = s
  BY DEF SchedulerInv, ScanShape, LockCovers
<1>7. sc[s].day <= today /\ (sc[s].day = today /\ sc[s].window => window)
  BY DEF SchedulerInv, ScanTimes
<1> HIDE DEF r
<1>move. ScanMove(s, r)
  BY <1>1, <1>2, <1>3, <1>4, <1>5, <1>6, <1>7 DEF ScanMove, SchedulerInv, TypeOK
<1> QED BY <1>move, ScanStep

\* What the parts say of one scheduler.
LEMMA ScanFacts ==
  ASSUME SchedulerInv, NEW s \in Schedulers
  PROVE  /\ sc[s] \in Scan
         /\ sc[s].pc \in {"leader", "dates", "insert"} <=> lock = s
         /\ sc[s].todo \subseteq sc[s].due /\ sc[s].mine \subseteq sc[s].due
         /\ sc[s].day <= today /\ (sc[s].day = today /\ sc[s].window => window)
         /\ \A d \in sc[s].due : OnTime(d, sc[s].day, sc[s].window)
         /\ sc[s].pc \in {"insert", "unlocked"} =>
              \A d \in sc[s].due \ sc[s].todo : task[Key(d)] # "ABSENT" \/ d \in sc[s].mine
         /\ \A d \in sc[s].mine :
              task[Key(d)] = "ABSENT" /\ \A o \in Schedulers \ {s} : d \notin sc[o].mine
BY DEF SchedulerInv, TypeOK, LockCovers, ScanShape, ScanTimes, ScanIsComplete, InsertedOnce

LEMMA EnqueueDateInv ==
  ASSUME SchedulerInv, NEW s \in Schedulers, NEW d \in Days, EnqueueDate(s, d)
  PROVE  SchedulerInv'
<1> USE DEF EnqueueDate, calendarVars, taskVars
<1> DEFINE left == sc[s].todo \ {d}
           has  == sc[s].mine \cup Inserted(d)
           r == [sc[s] EXCEPT !.todo = left, !.mine = has]
<1>1. sc[s] \in Scan /\ d \in sc[s].todo /\ sc[s].pc = "insert"
  BY DEF SchedulerInv, TypeOK
<1>2. r \in Scan
  BY <1>1 DEF Scan, Inserted
<1>3. sc' = [sc EXCEPT ![s] = r]
  BY DEF SchedulerInv, TypeOK
<1>4. /\ r.pc = "insert" /\ r.day = sc[s].day /\ r.window = sc[s].window /\ r.due = sc[s].due
      /\ r.todo = left /\ r.mine = has
  BY <1>1 DEF Scan
<1>5. has \subseteq sc[s].due /\ left \subseteq sc[s].due
  BY <1>1, ScanFacts DEF Inserted
<1>6. ASSUME NEW e \in sc[s].due \ left PROVE task[Key(e)] # "ABSENT" \/ e \in has
  BY <1>1, ScanFacts DEF Inserted
<1>7. ASSUME NEW e \in has
      PROVE  task[Key(e)] = "ABSENT" /\ \A o \in Schedulers \ {s} : e \notin sc[o].mine
  <2>1. CASE e \in sc[s].mine
    BY <2>1, ScanFacts
  <2>2. CASE e \in Inserted(d)
    BY <2>2 DEF Inserted, MayInsert
  <2> QED BY <2>1, <2>2
<1> HIDE DEF r, left, has
<1>move. ScanMove(s, r)
  BY <1>1, <1>2, <1>3, <1>4, <1>5, <1>6, <1>7, ScanFacts DEF ScanMove, SchedulerInv, TypeOK
<1> QED BY <1>move, ScanStep

LEMMA UnlockInv == ASSUME SchedulerInv, NEW s \in Schedulers, Unlock(s) PROVE SchedulerInv'
<1> USE DEF Unlock, calendarVars, taskVars
<1> DEFINE r == [sc[s] EXCEPT !.pc = "unlocked"]
<1>1. sc[s] \in Scan /\ sc[s].pc = "insert" /\ sc[s].todo = {}
  BY DEF SchedulerInv, TypeOK
<1>2. r \in Scan
  BY <1>1 DEF Scan
<1>3. sc' = [sc EXCEPT ![s] = r]
  BY DEF SchedulerInv, TypeOK
<1>4. /\ r.pc = "unlocked" /\ r.day = sc[s].day /\ r.window = sc[s].window /\ r.due = sc[s].due
      /\ r.todo = {} /\ r.mine = sc[s].mine
  BY <1>1 DEF Scan
<1>5. lock = s /\ lock' = NoScheduler /\ NoScheduler \notin Schedulers
  BY <1>1, ScanFacts
<1> HIDE DEF r
<1>6. \A o \in Schedulers \ {s} : lock' # o /\ lock # o
  BY <1>5
<1>7. stops' \in 0 .. MaxStops
  BY DEF SchedulerInv, TypeOK
<1>move. ScanMove(s, r)
  <2>1. /\ \A d \in sc[s].due : task[Key(d)] # "ABSENT" \/ d \in sc[s].mine
        /\ \A d \in sc[s].due : OnTime(d, sc[s].day, sc[s].window)
        /\ \A d \in sc[s].mine :
             task[Key(d)] = "ABSENT" /\ \A o \in Schedulers \ {s} : d \notin sc[o].mine
        /\ sc[s].mine \subseteq sc[s].due
        /\ sc[s].day <= today /\ (sc[s].day = today /\ sc[s].window => window)
    BY <1>1, ScanFacts
  <2> QED BY <1>2, <1>3, <1>4, <1>5, <1>6, <1>7, <2>1 DEF ScanMove
<1> QED BY <1>move, ScanStep

\* A scheduler that drops its scan without a commit.
LEMMA RestInv ==
  ASSUME SchedulerInv, NEW s \in Schedulers, Stop(s) \/ Restart(s)
  PROVE  SchedulerInv'
<1> USE DEF Stop, Restart, LockAfterStop, calendarVars, taskVars
<1> DEFINE r == Resting(IF Stop(s) THEN "down" ELSE "asleep")
<1>1. r \in Scan /\ 1 \in Days
  BY DEF Resting, Scan, Days
<1>2. sc' = [sc EXCEPT ![s] = r]
  OBVIOUS
<1>3. /\ r.pc \in {"down", "asleep"} /\ r.day = 1 /\ ~r.window
      /\ r.due = {} /\ r.todo = {} /\ r.mine = {}
  BY DEF Resting
<1>4. lock' # s /\ \A o \in Schedulers \ {s} : lock' = o <=> lock = o
  BY ScanFacts
<1>5. lock' \in Schedulers \cup {NoScheduler} /\ stops' \in 0 .. MaxStops /\ 1 <= today
  BY DEF SchedulerInv, TypeOK, Days
<1> HIDE DEF r
<1>move. ScanMove(s, r)
  BY <1>1, <1>2, <1>3, <1>4, <1>5 DEF ScanMove
<1> QED BY <1>move, ScanStep

LEMMA CommitInv == ASSUME SchedulerInv, NEW s \in Schedulers, Commit(s) PROVE SchedulerInv'
<1> USE DEF Commit, calendarVars
<1>1. \A d \in Days : Key(d) \in Tasks
  BY DEF Key, Tasks, RunTypes
<1>2. task \in [Tasks -> TaskStatus] /\ task' \in [Tasks -> TaskStatus]
  BY DEF SchedulerInv, TypeOK, TaskStatus
<1>3. \A t \in Tasks : IF t[1] = "INCREMENTAL" /\ t[2] \in sc[s].mine THEN task'[t] = "OPEN" ELSE task'[t] = task[t]
  OBVIOUS
<1>4. \A d \in Days : IF d \in sc[s].mine THEN task'[Key(d)] = "OPEN" ELSE task'[Key(d)] = task[Key(d)]
  BY <1>1, <1>3 DEF Key
<1>5. \A t \in Tasks : task[t] # "ABSENT" => task'[t] = task[t]
  <2> SUFFICES ASSUME NEW t \in Tasks, t[1] = "INCREMENTAL", t[2] \in sc[s].mine
               PROVE  task[t] = "ABSENT"
    BY <1>3
  <2> QED BY ScanFacts DEF Key, Tasks
<1>6. /\ sc' \in [Schedulers -> Scan] /\ \A o \in Schedulers \ {s} : sc'[o] = sc[o]
      /\ sc'[s] = Resting("asleep")
  <2>1. Resting("asleep") \in Scan
    BY DEF Resting, Scan, Days
  <2> QED BY <2>1 DEF SchedulerInv, TypeOK
<1>7. /\ sc'[s].pc = "asleep" /\ sc'[s].day = 1 /\ ~sc'[s].window
      /\ sc'[s].due = {} /\ sc'[s].todo = {} /\ sc'[s].mine = {}
  BY <1>6 DEF Resting
<1>8. TypeOK'
  BY <1>2, <1>6 DEF SchedulerInv, TypeOK
<1>9. LockCovers' /\ ScanShape'
  BY <1>6, <1>7 DEF SchedulerInv, LockCovers, ScanShape
<1>10. ScanTimes'
  <2>1. 1 <= today
    BY DEF SchedulerInv, TypeOK, Days
  <2> QED BY <1>6, <1>7, <2>1 DEF SchedulerInv, ScanTimes, OnTime
<1>11. TaskTimes'
  <2> SUFFICES ASSUME NEW d \in Days, task'[Key(d)] # "ABSENT", Key(d) \notin Requests
               PROVE  OnTime(d, today, window)
    BY DEF TaskTimes, OnTime, Key
  <2>1. CASE d \in sc[s].mine
    <3>1. OnTime(d, sc[s].day, sc[s].window) /\ sc[s].day <= today
          /\ (sc[s].day = today /\ sc[s].window => window)
      BY <2>1, ScanFacts
    <3>2. sc[s].day \in Days /\ today \in Days
      BY DEF SchedulerInv, TypeOK, Scan
    <3> QED BY <3>1, <3>2 DEF OnTime, Days
  <2>2. CASE d \notin sc[s].mine
    BY <1>4, <2>2 DEF SchedulerInv, TaskTimes
  <2> QED BY <2>1, <2>2
<1>12. \A o \in Schedulers : sc[o].due \subseteq Days /\ sc[o].mine \subseteq Days
  BY DEF SchedulerInv, TypeOK, Scan
<1>13. ScanIsComplete'
  <2> SUFFICES ASSUME NEW o \in Schedulers, sc'[o].pc \in {"insert", "unlocked"},
                      NEW d \in sc'[o].due \ sc'[o].todo
               PROVE  task'[Key(d)] # "ABSENT" \/ d \in sc'[o].mine
    BY DEF ScanIsComplete, Key
  <2>1. o # s /\ sc'[o] = sc[o] /\ d \in Days
    BY <1>6, <1>7, <1>12
  <2> QED BY <1>4, <2>1, ScanFacts
<1>14. InsertedOnce'
  <2> SUFFICES ASSUME NEW o \in Schedulers, NEW d \in sc'[o].mine
               PROVE  task'[Key(d)] = "ABSENT" /\ \A q \in Schedulers : d \in sc'[q].mine => q = o
    BY DEF InsertedOnce, Key
  <2>1. o # s /\ sc'[o] = sc[o] /\ d \in Days
    BY <1>6, <1>7, <1>12
  <2>2. task[Key(d)] = "ABSENT" /\ \A q \in Schedulers \ {o} : d \notin sc[q].mine
    BY <2>1, ScanFacts
  <2>3. d \notin sc'[s].mine
    BY <1>7
  <2> QED BY <1>4, <1>6, <2>1, <2>2, <2>3
<1>15. WatermarkIsCollected'
  <2> SUFFICES ASSUME watermark # 0 PROVE \E rt \in RunTypes : task'[<<rt, watermark>>] = "SUCCEEDED"
    BY DEF WatermarkIsCollected
  <2>1. PICK rt \in RunTypes : task[<<rt, watermark>>] = "SUCCEEDED"
    BY DEF SchedulerInv, WatermarkIsCollected
  <2>2. <<rt, watermark>> \in Tasks
    BY DEF SchedulerInv, TypeOK, Tasks, Days
  <2> QED BY <1>5, <2>1, <2>2
<1>16. ClosesOpen'
  <2> SUFFICES ASSUME NEW w \in Workers, wk[w] # Idle PROVE task'[wk[w].task] # "ABSENT"
    BY DEF ClosesOpen, Idle
  <2>1. wk[w].task \in Tasks /\ task[wk[w].task] # "ABSENT"
    BY DEF SchedulerInv, TypeOK, Closing, Idle, ClosesOpen
  <2> QED BY <1>5, <2>1
<1> QED BY <1>8, <1>9, <1>10, <1>11, <1>13, <1>14, <1>15, <1>16 DEF SchedulerInv
-----------------------------------------------------------------------------
LEMMA StepInv == SchedulerInv /\ [Next]_vars => SchedulerInv'
<1> SUFFICES ASSUME SchedulerInv, [Next]_vars PROVE SchedulerInv'
  OBVIOUS
<1>1. CASE Tick
  BY <1>1, TickInv
<1>2. CASE (\E r \in Calendars : EnqueueTradeCalendar(r)) \/ (\E p \in Days \X Days : CollectCalendar(p))
  BY <1>2, CalendarInv
<1>3. ASSUME NEW s \in Schedulers, Scanning(s) \/ Stop(s) \/ Restart(s) PROVE SchedulerInv'
  BY <1>3, TryLockInv, ReadWatermarkInv, ReadDatesInv, EnqueueDateInv, UnlockInv, CommitInv, RestInv
     DEF Scanning
<1>4. ASSUME NEW t \in Tasks, Enqueue(t) PROVE SchedulerInv'
  BY <1>4, EnqueueInv
<1>5. ASSUME NEW w \in Workers, (\E t \in Tasks : LoadWatermark(w, t)) \/ CloseTask(w) \/ AbandonClose(w)
      PROVE  SchedulerInv'
  BY <1>5, LoadInv, CloseInv, AbandonInv
<1>6. CASE UNCHANGED vars
  BY <1>6 DEF vars, calendarVars, taskVars, SchedulerInv, TypeOK, LockCovers, ScanShape, ScanTimes,
     TaskTimes, ClosesOpen, ScanIsComplete, InsertedOnce, WatermarkIsCollected, OnTime, Key, Idle
<1> QED BY <1>1, <1>2, <1>3, <1>4, <1>5, <1>6 DEF Next

\* The strengthened invariant holds: what the scheduler's processes hold in
\* memory or uncommitted agrees with the lock, the clock and the rows.
THEOREM SchedulerInvariant == Spec => []SchedulerInv
<1>1. Init => SchedulerInv
  BY InitInv
<1>2. SchedulerInv /\ [Next]_vars => SchedulerInv'
  BY StepInv
<1> QED BY <1>1, <1>2, PTL DEF Spec

\* Every row and every process of the scheduler's model keeps its type.
THEOREM SchedulerTypes == Spec => []TypeOK
<1>1. SchedulerInv => TypeOK
  BY DEF SchedulerInv
<1> QED BY <1>1, SchedulerInvariant, PTL

\* However many scheduler processes scan, two scans never wait for each
\* other: the one that is waited for has released the lock and commits next.
THEOREM NoMutualWait == Spec => []WaitsForCommitOnly
<1>1. SchedulerInv => WaitsForCommitOnly
  BY InvImplies
<1> QED BY <1>1, SchedulerInvariant, PTL

\* A scan that commits leaves no date it saw as due without a task.
THEOREM ScanIsCompleteAlways == Spec => []ScanIsComplete
<1>1. SchedulerInv => ScanIsComplete
  BY DEF SchedulerInv
<1> QED BY <1>1, SchedulerInvariant, PTL

\* However many scans overlap, die and are repeated, no key is entered by two
\* open transactions or after it has a task.
THEOREM EachTaskInsertedOnce == Spec => []InsertedOnce
<1>1. SchedulerInv => InsertedOnce
  BY DEF SchedulerInv
<1> QED BY <1>1, SchedulerInvariant, PTL

\* No task of the scheduler is early, whatever the clock does during the scan.
THEOREM SchedulerIsNeverEarly == Spec => []NothingEarly
<1>1. SchedulerInv => NothingEarly
  BY InvImplies
<1> QED BY <1>1, SchedulerInvariant, PTL

\* The watermark always names a date that was collected.
THEOREM WatermarkNamesCollectedDate == Spec => []WatermarkIsCollected
<1>1. SchedulerInv => WatermarkIsCollected
  BY DEF SchedulerInv
<1> QED BY <1>1, SchedulerInvariant, PTL

\* An open day of a range that was asked for is covered by a slice from the
\* start, and is in the calendar once that slice is collected.
LEMMA CalendarStep ==
  ASSUME CalendarHasNoHole, [Next]_vars
  PROVE  CalendarHasNoHole'
<1>1. ASSUME NEW r \in Calendars, EnqueueTradeCalendar(r)
      PROVE  CalendarHasNoHole'
  <2> SUFFICES ASSUME NEW q \in asked', NEW d \in OpenDays \cap q[1] .. q[2]
               PROVE  d \in calendar' \/ \E p \in pages' : d \in p[1] .. p[2]
    BY DEF CalendarHasNoHole
  <2>1. CASE q \in asked
    BY <1>1, <2>1 DEF EnqueueTradeCalendar, CalendarHasNoHole
  <2>2. CASE q = r
    <3>1. r[1] \in Days /\ r[2] \in Days
      OBVIOUS
    <3>2. PICK p \in PlanSlices(r[1], r[2]) : d \in p[1] .. p[2]
      BY <2>2, <3>1, SlicesPartitionRange
    <3> QED BY <1>1, <3>2 DEF EnqueueTradeCalendar
  <2> QED BY <1>1, <2>1, <2>2 DEF EnqueueTradeCalendar
<1>2. ASSUME NEW p \in Days \X Days, CollectCalendar(p)
      PROVE  CalendarHasNoHole'
  BY <1>2 DEF CollectCalendar, CalendarHasNoHole
<1>3. ASSUME UNCHANGED calendarVars PROVE CalendarHasNoHole'
  BY <1>3 DEF calendarVars, CalendarHasNoHole
<1>4. CASE UNCHANGED vars
  BY <1>3, <1>4 DEF vars
<1>5. ASSUME NEW s \in Schedulers, Scanning(s) \/ Stop(s) \/ Restart(s)
      PROVE  UNCHANGED calendarVars
  BY <1>5 DEF Scanning, TryLock, ReadWatermark, ReadDates, EnqueueDate, Unlock, Commit, Stop, Restart
<1>6. ASSUME NEW w \in Workers, (\E t \in Tasks : LoadWatermark(w, t)) \/ CloseTask(w) \/ AbandonClose(w)
      PROVE  UNCHANGED calendarVars
  BY <1>6 DEF LoadWatermark, CloseTask, AbandonClose
<1>7. (Tick \/ \E t \in Tasks : Enqueue(t)) => UNCHANGED calendarVars
  BY DEF Tick, Enqueue
<1> QED BY <1>1, <1>2, <1>3, <1>4, <1>5, <1>6, <1>7 DEF Next

\* Whatever ranges are asked for and in whatever order their slices are
\* collected, no open day of a range is lost at the end of a year.
THEOREM CalendarIsComplete == Spec => []CalendarHasNoHole
<1>1. Init => CalendarHasNoHole
  BY DEF Init, CalendarHasNoHole
<1>2. CalendarHasNoHole /\ [Next]_vars => CalendarHasNoHole'
  BY CalendarStep
<1> QED BY <1>1, <1>2, PTL DEF Spec
=============================================================================
