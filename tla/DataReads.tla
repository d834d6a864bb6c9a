----------------------------- MODULE DataReads -----------------------------
(***************************************************************************)
(* Readers of the formal tables beside the quality runs that write them:   *)
(* the data API (app/api/routes/data.py), DataContext and its readers      *)
(* (app/datacontext), and the lineage queries (app/lineage/service.py).    *)
(*                                                                         *)
(* A publication stamps its rows when it compares them with the table, and *)
(* commits later (app/governance/executor.py).  A query is one or more     *)
(* statements under READ COMMITTED, each of which sees what has committed  *)
(* by then.  Module Publication has what a quality run decides; here the   *)
(* verdict is free.                                                        *)
(***************************************************************************)
EXTENDS Integers, Sequences, FiniteSets

CONSTANTS
  Batches,   \* clean batches with candidates
  ItemOf,    \* the DataItem of a batch
  RowsOf,    \* its candidates: a set of [key, val], val for the business fields
  Keys,      \* business keys: [code, day]; of a calendar row only the day counts
  Vals,
  Readers,   \* sessions; each serves one request
  Requests,  \* what they may ask
  Bounds,    \* bound of the model: the quality runs that each batch has together
             \* in one behaviour
  MaxRuns,   \* bound of the model: quality runs of a batch
  MaxTime,   \* bound of the model: the last instant
  Null       \* None

Tables == {"stock_daily", "stock_adj_factor", "trade_calendar", "stock_suspend",
           "stock_limit_price", "stock_minute", "stock_basic"}
Candidate == [key : Keys, val : Vals]
Instant == 0 .. MaxTime
Request ==
  [endpoint : {"daily", "minute", "financial", "events", "calendar",
               "securities", "lineage", "batch"},
   mode       : {"research", "strategy", "backtest"}, \* the API: research
   table      : Tables,                   \* of a lineage query
   codes      : {"none", "some", "over"}, \* over: more than a minute query may
   keys       : SUBSET Keys,              \* what codes and dates select
   batch      : Batches \cup {Null},      \* of a batch lineage query: Null if there is none
   asOf       : Instant \cup {Null},
   cutoff     : Instant \cup {Null},
   policy     : {"strict", "standard", "lenient"},
   adjustment : {"none", "forward_adj", "backward_adj"},
   frequency  : {"daily", "weekly", "monthly"}]

ASSUME DataReadsConstants ==
  /\ ItemOf \in [Batches -> Tables]
  /\ RowsOf \in [Batches -> SUBSET Candidate]
  /\ \A b \in Batches : \A p, q \in RowsOf[b] : p.key = q.key => p = q
  /\ Keys \subseteq [code : STRING, day : Nat]
  /\ Requests \subseteq Request /\ Requests # {}
  /\ Bounds \subseteq [Batches -> 0 .. MaxRuns]
  /\ MaxRuns \in Nat /\ MaxTime \in Nat
  /\ Null \notin Int /\ Null \notin Batches

VARIABLES
  now,     \* the clock of the processes
  table,   \* the formal tables
  runs,    \* the quality runs of a batch by started_at, with their status
  pub,     \* the publication of a batch that has not committed
  decided, \* history variable: when the publication of a batch took its stamp
  rd,      \* the query of a reader
  ans      \* what it was answered last

market == <<now, table, runs, pub, decided>>
vars == <<market, rd, ans>>

Quality == {"PASS", "WARN"}
RunStatus == {"RUNNING", "PASSED", "WARNED", "BLOCKED", "FAILED"}
FormalRow == [item : Tables, key : Keys, val : Vals, avail : Instant,
              quality : Quality, from : Batches]
NoPub == [run |-> 0, at |-> 0, quality |-> "PASS", changed |-> {}]
Pub == [run : 0 .. MaxRuns, at : Instant, quality : Quality,
        changed : SUBSET Candidate]
Steps == {"idle", "read", "more", "factors", "dates", "respond", "runs", "done"}
Session == [pc : Steps, req : Requests, rows : SUBSET FormalRow,
            factors : SUBSET FormalRow, dates : SUBSET Nat, cutoff : Instant,
            runs : Seq(RunStatus)]
Fetching(q) == [pc |-> "read", req |-> q, rows |-> {}, factors |-> {},
                dates |-> {}, cutoff |-> 0, runs |-> <<>>]
Status == {"none", "200", "400", "404", "422", "500", "504"}
NoAnswer == [status |-> "none", rows |-> {}, cutoff |-> 0, quality |-> Null]

Init ==
  /\ now = 0
  /\ table = {}
  /\ runs = [b \in Batches |-> <<>>]
  /\ pub = [b \in Batches |-> NoPub]
  /\ decided = [b \in Batches |-> 0]
  /\ rd = [r \in Readers |->
             [Fetching(CHOOSE q \in Requests : TRUE) EXCEPT !.pc = "idle"]]
  /\ ans = [r \in Readers |-> NoAnswer]

-----------------------------------------------------------------------------
(***************************************************************************)
(* Quality runs.                                                           *)
(***************************************************************************)
IsPublished(b) == \E n \in DOMAIN runs[b] : runs[b][n] \in {"PASSED", "WARNED"}

Tick == now < MaxTime /\ now' = now + 1 /\ UNCHANGED <<table, runs, pub, decided, rd, ans>>

\* prepare_stage_run commits the run before the quality transaction begins.
Prepare(b) ==
  /\ Len(runs[b]) < MaxRuns
  /\ \E bound \in Bounds :
       Len(runs[b]) < bound[b] /\ \A d \in Batches : Len(runs[d]) <= bound[d]
  /\ runs' = [runs EXCEPT ![b] = Append(@, "RUNNING")]
  /\ UNCHANGED <<now, table, pub, decided, rd, ans>>

\* A run of a batch waits for the row that another one has set to VALIDATING.
Judges(b, n) == pub[b].run = 0 /\ n \in DOMAIN runs[b] /\ runs[b][n] = "RUNNING"

Block(b, n) ==
  /\ Judges(b, n)
  /\ runs' = [runs EXCEPT ![b] = [@ EXCEPT ![n] = "BLOCKED"]]
  /\ UNCHANGED <<now, table, pub, decided, rd, ans>>

Unchanged(b, p) ==
  \E t \in table : t.item = ItemOf[b] /\ t.key = p.key /\ t.val = p.val
\* A published batch has no candidates left and can only be blocked.
Stamp(b, n, quality) ==
  /\ Judges(b, n) /\ ~IsPublished(b)
  /\ pub' = [pub EXCEPT ![b] =
               [run |-> n, at |-> now, quality |-> quality,
                changed |-> {p \in RowsOf[b] : ~Unchanged(b, p)}]]
  /\ UNCHANGED <<now, table, runs, decided, rd, ans>>

Rollback(b) ==
  /\ pub[b].run # 0
  /\ runs' = [runs EXCEPT ![b] = [@ EXCEPT ![pub[b].run] = "FAILED"]]
  /\ pub' = [pub EXCEPT ![b] = NoPub]
  /\ UNCHANGED <<now, table, decided, rd, ans>>

\* mutant: available_at is a silence day later than published_at
AfterSilence(b) ==
  {[item |-> ItemOf[b], key |-> p.key, val |-> p.val, avail |-> pub[b].at + 1,
    quality |-> pub[b].quality, from |-> b] : p \in pub[b].changed}
Written(b) ==
  {[item |-> ItemOf[b], key |-> p.key, val |-> p.val, avail |-> pub[b].at,
    quality |-> pub[b].quality, from |-> b] : p \in pub[b].changed}
Replaced(b) ==
  {t \in table : t.item = ItemOf[b] /\ \E p \in pub[b].changed : p.key = t.key}
\* mutant: the update of a conflicting row leaves out _available_at
KeepsStamp(b) ==
  (table \ Replaced(b)) \cup
    {LET old == {t \in Replaced(b) : t.key = u.key}
     IN IF old = {} THEN u ELSE [u EXCEPT !.avail = (CHOOSE t \in old : TRUE).avail] :
       u \in Written(b)}
\* ON CONFLICT on the business key DO UPDATE
Upserted(b) == (table \ Replaced(b)) \cup Written(b)

\* mutant: the run is closed by a transaction of its own
StillRunning(quality) == "RUNNING"
Verdict(quality) == IF quality = "WARN" THEN "WARNED" ELSE "PASSED"

Commit(b) ==
  /\ pub[b].run # 0
  /\ table' = Upserted(b)
  /\ runs' = [runs EXCEPT ![b] = [@ EXCEPT ![pub[b].run] = Verdict(pub[b].quality)]]
  /\ pub' = [pub EXCEPT ![b] = NoPub]
  /\ decided' = [decided EXCEPT ![b] = pub[b].at]
  /\ UNCHANGED <<now, rd, ans>>

-----------------------------------------------------------------------------
(***************************************************************************)
(* What a statement returns.                                               *)
(***************************************************************************)
Least(a, b) == IF a <= b THEN a ELSE b
\* resolve_cutoff; strategy and backtest raise without an as_of_time.
Anchored(q) == q.mode = "research" \/ q.asOf # Null
Cutoff(q) ==
  CASE q.mode = "research" -> IF q.cutoff = Null THEN now ELSE Least(now, q.cutoff)
    [] q.mode = "strategy" -> Least(q.asOf, IF q.cutoff = Null THEN now ELSE q.cutoff)
    [] OTHER               -> IF q.cutoff = Null THEN q.asOf ELSE Least(q.asOf, q.cutoff)

\* build_quality_clause.  Its words are not those that a publication writes.
Allows(policy, quality) ==
  CASE policy = "strict"   -> quality = "PASSED"
    [] policy = "standard" -> quality \in {"PASSED", "WARNING"}
    [] OTHER               -> quality # "FAILED"

AsOf(item, cutoff) == {t \in table : t.item = item /\ t.avail <= cutoff}
Passing(q, item) ==
  {t \in AsOf(item, Cutoff(q)) : t.key \in q.keys /\ Allows(q.policy, t.quality)}
\* _read_adj_factors has no quality clause; _read_calendar no codes either.
Factors(q) == {t \in AsOf("stock_adj_factor", Cutoff(q)) : t.key \in q.keys}
OpenDays(q) ==
  {t.key.day : t \in {c \in AsOf("trade_calendar", Cutoff(q)) :
                        c.key.day \in {k.day : k \in q.keys}}}

-----------------------------------------------------------------------------
(***************************************************************************)
(* Adjustment and alignment.  select(Entity) through mappings() gives a    *)
(* dict with the one key "CleanStockDaily", the object under it, and so    *)
(* every .get of a column is None.                                         *)
(***************************************************************************)
Mapping(t) == [entity |-> t]
Get(row, field) == IF field \in DOMAIN row THEN row[field] ELSE Null
With(row, new) ==
  [f \in DOMAIN row \cup DOMAIN new |-> IF f \in DOMAIN new THEN new[f] ELSE row[f]]

\* The factor of the row's date, and one to divide by.  A factor is positive.
HasFactor(row, factors) ==
  \E f \in factors : /\ Get(f, "adj_factor") # Null
                     /\ Get(f, "security_code") = Get(row, "security_code")
                     /\ Get(f, "trade_date") = Get(row, "trade_date")
HasBase(row, factors) ==
  \E f \in factors : /\ Get(f, "security_code") = Get(row, "security_code")
                     /\ \A field \in {"security_code", "adj_factor", "trade_date"} :
                          Get(f, field) # Null
Adjusted(rows, factors, method) ==
  {IF HasFactor(row, factors) /\ HasBase(row, factors)
   THEN With(row, [adjustment_method |-> method])
   ELSE With(row, [quality_status |-> "WARNING", adjustment_gap |-> TRUE]) : row \in rows}

\* A date has no attribute "days", so every gap counts as one day.
TradingWeek(dates, day) == IF day \in dates THEN 0 ELSE Null
MonthKey(day) == IF day = Null THEN Null ELSE day \div 30
GroupKey(row, frequency, dates) ==
  LET day == Get(row, "trade_date")
  IN <<Get(row, "security_code"),
       IF frequency = "weekly" THEN TradingWeek(dates, day) ELSE MonthKey(day)>>
Groups(rows, frequency, dates) ==
  {{other \in rows : GroupKey(other, frequency, dates) = GroupKey(row, frequency, dates)} :
     row \in rows}
\* sorted: None is not less than None.
Unsortable(group) ==
  Cardinality(group) > 1 /\ \E row \in group : Get(row, "trade_date") = Null
Before(row, other) ==
  row = other \/ Get(row, "trade_date") <= Get(other, "trade_date")
Aggregate(group) ==
  LET head == CHOOSE row \in group : \A other \in group : Before(row, other)
      last == CHOOSE row \in group : \A other \in group : Before(other, row)
      bar  == [security_code |-> Get(head, "security_code"),
               trade_date |-> Get(last, "trade_date")]
  IN IF "quality_status" \in DOMAIN head
     THEN With(bar, [quality_status |-> head.quality_status]) ELSE bar

Aligns(q) == q.frequency \in {"weekly", "monthly"}

-----------------------------------------------------------------------------
(***************************************************************************)
(* A request.  No step of a reader changes the market.                     *)
(***************************************************************************)
Answer(r, status, rows, cutoff, quality) ==
  /\ rd' = [rd EXCEPT ![r].pc = "done"]
  /\ ans' = [ans EXCEPT ![r] = [status |-> status, rows |-> rows, cutoff |-> cutoff,
                                quality |-> quality]]
Refuse(r, status) == Answer(r, status, {}, 0, Null)
Continue(r, query) == rd' = [rd EXCEPT ![r] = query] /\ UNCHANGED ans

Ask(r, q) ==
  /\ rd[r].pc = "idle"
  /\ Continue(r, Fetching(q))

\* query_minute refuses these before its try block; the rest is _handle_error's.
BadRequest(q) == q.endpoint = "minute" /\ q.codes \in {"none", "over"}
\* No scope; no as_of_time; CleanStockMinute has neither available_at nor
\* quality_status; the financial tables have no column security_code.
Raises(q) ==
  \/ q.endpoint \in {"daily", "financial", "events"} /\ q.codes = "none"
  \/ q.endpoint \in {"daily", "events"} /\ ~Anchored(q)
  \/ q.endpoint \in {"minute", "financial"}
At(r, endpoint) ==
  /\ rd[r].pc = "read" /\ rd[r].req.endpoint = endpoint
  /\ ~BadRequest(rd[r].req) /\ ~Raises(rd[r].req)

Reject(r) ==
  /\ rd[r].pc = "read"
  /\ \/ BadRequest(rd[r].req) /\ Refuse(r, "400")
     \/ ~BadRequest(rd[r].req) /\ Raises(rd[r].req) /\ Refuse(r, "500")

\* SET LOCAL statement_timeout is for the queries of DataContext; any statement
\* may fail otherwise.
Timed == {"daily", "minute", "financial", "events"}
StatementFails(r) ==
  /\ rd[r].pc \in {"read", "more", "factors", "dates", "runs"}
  /\ ~BadRequest(rd[r].req)
  /\ \/ Refuse(r, "500")
     \/ rd[r].req.endpoint \in Timed /\ Refuse(r, "504")

AfterFactors(q) == IF Aligns(q) THEN "dates" ELSE "respond"
AfterRows(q) == IF q.adjustment = "none" THEN AfterFactors(q) ELSE "factors"

Daily(r) ==
  LET q == rd[r].req
  IN /\ At(r, "daily")
     /\ Continue(r, [rd[r] EXCEPT !.rows = Passing(q, "stock_daily"),
                                  !.pc = AfterRows(q)])
ReadAdjFactors(r) ==
  LET q == rd[r].req
  IN /\ rd[r].pc = "factors"
     /\ Continue(r, [rd[r] EXCEPT !.factors = Factors(q), !.pc = AfterFactors(q)])
ReadCalendar(r) ==
  /\ rd[r].pc = "dates"
  /\ Continue(r, [rd[r] EXCEPT !.dates = OpenDays(rd[r].req), !.pc = "respond"])

\* Two statements under one cutoff.
Suspend(r) ==
  LET q == rd[r].req
  IN /\ At(r, "events")
     /\ Continue(r, [rd[r] EXCEPT !.rows = Passing(q, "stock_suspend"),
                                  !.cutoff = Cutoff(q), !.pc = "more"])
LimitPrice(r) ==
  LET more == {t \in AsOf("stock_limit_price", rd[r].cutoff) :
                 t.key \in rd[r].req.keys /\ Allows(rd[r].req.policy, t.quality)}
  IN /\ rd[r].pc = "more"
     /\ Continue(r, [rd[r] EXCEPT !.rows = @ \cup more, !.pc = "respond"])

\* The calendar and the securities are read as they are.
Plain(r, endpoint, item) ==
  /\ At(r, endpoint)
  /\ Continue(r, [rd[r] EXCEPT !.rows = {t \in table : /\ t.item = item
                                                      /\ t.key \in rd[r].req.keys},
                               !.pc = "respond"])

\* The rows as dicts, after apply_adjustment and before align_to_calendar.
Dicts(s) ==
  CASE s.req.endpoint = "calendar" -> {[calendar_date |-> t.key.day] : t \in s.rows}
    [] s.req.endpoint = "securities" -> {[security_code |-> t.key.code] : t \in s.rows}
    [] s.req.adjustment = "none" -> {Mapping(t) : t \in s.rows}
    [] OTHER -> Adjusted({Mapping(t) : t \in s.rows}, {Mapping(t) : t \in s.factors},
                         s.req.adjustment)
Resampled(s) == s.req.endpoint = "daily" /\ Aligns(s.req)
GroupsOf(s) == Groups(Dicts(s), s.req.frequency, s.dates)
Bars(s) == IF Resampled(s) THEN {Aggregate(g) : g \in GroupsOf(s)} ELSE Dicts(s)
AlignmentRaises(s) == Resampled(s) /\ \E g \in GroupsOf(s) : Unsortable(g)

\* FastAPI has no encoding for an object of the ORM.  Only the API encodes.
Encodable(rows) == \A row \in rows : "entity" \notin DOMAIN row
Responds(s) ==
  ~AlignmentRaises(s) /\ (s.req.mode = "research" => Encodable(Bars(s)))

\* _build_metadata, after the reads
MetadataCutoff(q) == IF q.asOf = Null THEN now ELSE q.asOf

Respond(r) ==
  /\ rd[r].pc = "respond"
  /\ \/ ~Responds(rd[r]) /\ Refuse(r, "500")
     \/ /\ Responds(rd[r])
        /\ Answer(r, "200", Bars(rd[r]), MetadataCutoff(rd[r].req), Null)

-----------------------------------------------------------------------------
(***************************************************************************)
(* Lineage: the row, then the quality runs of the batch it names.          *)
(***************************************************************************)
FindRow(r) ==
  LET q == rd[r].req
      found == {t \in table : t.item = q.table /\ t.key \in q.keys}
  IN /\ At(r, "lineage")
     /\ \/ q.keys = {} /\ Refuse(r, "422")
        \/ q.keys # {} /\ found = {} /\ Refuse(r, "404")
        \/ \E t \in found : Continue(r, [rd[r] EXCEPT !.rows = {t}, !.pc = "runs"])

\* stock_minute has no quality of its own: that of the run started last.
Spoken(status) ==
  CASE status = "PASSED" -> "PASS" [] status = "WARNED" -> "WARN" [] OTHER -> status
LatestQuality(q) == IF q = <<>> THEN Null ELSE Spoken(q[Len(q)])

Trace(r, batch, quality) ==
  /\ rd' = [rd EXCEPT ![r] = [@ EXCEPT !.runs = runs[batch], !.pc = "done"]]
  /\ ans' = [ans EXCEPT ![r] = [NoAnswer EXCEPT !.status = "200", !.quality = quality]]

DataLineage(r) ==
  /\ rd[r].pc = "runs"
  /\ \E t \in rd[r].rows :
       Trace(r, t.from, IF t.item = "stock_minute" THEN LatestQuality(runs[t.from])
                        ELSE t.quality)
BatchLineage(r) ==
  LET b == rd[r].req.batch
  IN /\ At(r, "batch")
     /\ (b = Null /\ Refuse(r, "404")) \/ (b # Null /\ Trace(r, b, Null))

-----------------------------------------------------------------------------
Publisher(b) ==
  \/ Prepare(b) \/ Rollback(b) \/ Commit(b)
  \/ \E n \in 1 .. MaxRuns : Block(b, n) \/ \E quality \in Quality : Stamp(b, n, quality)
Reader(r) ==
  /\ \/ \E q \in Requests : Ask(r, q)
     \/ Reject(r) \/ StatementFails(r) \/ Respond(r)
     \/ Daily(r) \/ ReadAdjFactors(r) \/ ReadCalendar(r)
     \/ Suspend(r) \/ LimitPrice(r)
     \/ Plain(r, "calendar", "trade_calendar") \/ Plain(r, "securities", "stock_basic")
     \/ FindRow(r) \/ DataLineage(r) \/ BatchLineage(r)
  /\ UNCHANGED market
Next == Tick \/ (\E b \in Batches : Publisher(b)) \/ (\E r \in Readers : Reader(r))

Spec == Init /\ [][Next]_vars

-----------------------------------------------------------------------------
(***************************************************************************)
(* Properties.                                                             *)
(***************************************************************************)
\* The formal tables have one row for a business key.
TypeOK ==
  /\ now \in Instant
  /\ table \subseteq FormalRow
  /\ \A t, u \in table : t.item = u.item /\ t.key = u.key => t = u
  /\ runs \in [Batches -> Seq(RunStatus)]
  /\ \A b \in Batches : Len(runs[b]) <= MaxRuns
  /\ pub \in [Batches -> Pub]
  /\ decided \in [Batches -> Instant]
  /\ rd \in [Readers -> Session]
  /\ \A r \in Readers : ans[r].status \in Status /\ ans[r].cutoff \in Instant

\* A strategy or backtest query returns nothing that was published after its
\* as_of_time: a row that a later publication has overwritten is then missing,
\* but its new content does not appear under its old date (resolve_cutoff and
\* the upsert of _publish).
NoLookahead ==
  \A r \in Readers :
    rd[r].req.endpoint \in {"daily", "events"} /\ rd[r].req.mode # "research" =>
      \A t \in rd[r].rows \cup rd[r].factors : decided[t.from] <= rd[r].req.asOf

\* The cutoff that an answer names covers every row that was read for it,
\* although the rows may be of several moments and some are read without any
\* cutoff (_build_metadata).  With an as_of_time it need not: see ReadsDocuments.
MetadataCoversAnswer ==
  \A r \in Readers :
    rd[r].pc = "done" /\ ans[r].status = "200" /\ rd[r].req.asOf = Null
      /\ rd[r].req.endpoint \notin {"lineage", "batch"} =>
      \A t \in rd[r].rows \cup rd[r].factors : t.avail <= ans[r].cutoff

\* The lineage of a row shows a quality run that approved it, with the row's
\* own verdict, whatever became of the row and of the batch between the
\* statements of the query and whatever other runs the batch had.
LineageOnRecord ==
  \A r \in Readers :
    rd[r].pc = "done" /\ ans[r].status = "200" /\ rd[r].req.endpoint = "lineage" =>
      \A t \in rd[r].rows :
        \E n \in DOMAIN rd[r].runs : rd[r].runs[n] = Verdict(t.quality)
=============================================================================
