----------------------------- MODULE Publication -----------------------------
(***************************************************************************)
(* The governed DataItems together: how the quality rules of one item read *)
(* what other items have published (app/governance/executor.py, _validate  *)
(* and _publish), and how a batch is judged again under a new rule version *)
(* (app/governance/tasks.py).                                              *)
(*                                                                         *)
(* Module Governance has the lease queue, the failures and the requests of *)
(* one item; here each stage task runs once.  Module MarketData has the    *)
(* rows.  A quality run reads (Judge, all its reads at one moment) and     *)
(* later commits (Publish); meanwhile it holds the row of its batch and    *)
(* nothing of the tables it reads.  A clean reads one thing that others    *)
(* write, security_master, so it is one step, taken when it reads.         *)
(***************************************************************************)
EXTENDS MarketData

CONSTANTS
  Workers,    \* worker ids
  Sources,    \* COLLECT tasks, numbered in the order those alike close
  ItemOf,     \* the DataItem of a source
  ScopeOf,    \* its scope: a record with the fields of scope_json
  Answers,    \* what the provider may answer to a source: sequences of raw rows
  MaxVersion, \* bound of the model: rule versions deployed
  Bounds      \* bound of the model: the sources that close together in one
              \* behaviour, the rule versions that are deployed in it, and the
              \* sources that the operator cleans again

ASSUME PublicationConstants ==
  /\ Sources \subseteq Nat \ {0}
  /\ ItemOf \in [Sources -> Items]
  /\ \A c \in Sources : Answers[c] \subseteq Seq(RawRow[ItemOf[c]])
  /\ \A c, d \in Sources :
       ItemOf[c] = ItemOf[d] => DOMAIN ScopeOf[c] = DOMAIN ScopeOf[d]
  /\ MaxVersion \in Nat \ {0}
  /\ Bounds \subseteq [sources : SUBSET Sources, versions : 1 .. MaxVersion,
                     again : SUBSET Sources]

\* The provider is asked for one security, and its answer is about that one:
\* Tushare's promise, which no code checks.
ASSUME AnswersAreAboutTheSecurity ==
  \A c \in Sources : ItemOf[c] = "stock_minute" =>
    \A rows \in Answers[c] : \A n \in DOMAIN rows : rows[n].code = ScopeOf[c].code

Jobs == {"CLEAN", "QUALITY"} \X Sources \X (1 .. MaxVersion)
NoJob == <<"NONE", 0, 0>>

VARIABLES
  stage,    \* clean_batch.status of a source; before it, OPEN or COLLECTED
  raw,      \* raw rows under the RawBatches of a source, with their order
  count,    \* accepted_rows, skipped_rows and rejected_rows of the batch
  cand,     \* clean_candidate_row: payloads
  ruled,    \* clean_batch.quality_rule_version, 0 without a batch
  approved, \* batches with a published_quality_run_id
  version,  \* the QUALITY_RULE_VERSION that is deployed
  created,  \* stage tasks that exist; one per idempotency key
  open,     \* those that are neither SUCCEEDED nor FAILED
  table,    \* the formal tables: payloads with the batch that wrote them
  wk,       \* the quality run each worker has in progress
  seen      \* history variable: what was approved when a batch was judged

batchRows == <<stage, raw, count, cand, ruled, approved, seen>>
vars == <<batchRows, version, created, open, table, wk>>

Stages == {"OPEN", "COLLECTED", "CANDIDATE", "BLOCKED", "PUBLISHED", "SUPERSEDED"}
Idle == [job |-> NoJob, blocked |-> FALSE, changed |-> {}, seen |-> {}]
Counts == [accepted : Nat, skipped : Nat, rejected : Nat]

TypeOK ==
  /\ stage \in [Sources -> Stages]
  /\ \A c \in Sources : raw[c] \subseteq [at : Nat, row : RawRow[ItemOf[c]]]
  /\ count \in [Sources -> Counts]
  /\ \A c \in Sources : cand[c] \subseteq FormalRow[ItemOf[c]]
  /\ approved \subseteq Sources /\ ruled \in [Sources -> 0 .. MaxVersion]
  /\ version \in 1 .. MaxVersion
  /\ open \subseteq created /\ created \subseteq Jobs
  /\ \A i \in Items : \A t \in table[i] :
       t.from \in approved /\ ItemOf[t.from] = i /\ t.pay \in FormalRow[i]
  /\ \A i \in Items : \A t, u \in table[i] :
       KeyOf(i, t.pay) = KeyOf(i, u.pay) => t = u
  /\ \A w \in Workers : wk[w].job # NoJob => wk[w].job \in open
  /\ seen \in [Sources -> SUBSET Sources]

Init ==
  /\ stage = [c \in Sources |-> "OPEN"] /\ raw = [c \in Sources |-> {}]
  /\ count = [c \in Sources |-> [accepted |-> 0, skipped |-> 0, rejected |-> 0]]
  /\ cand = [c \in Sources |-> {}] /\ ruled = [c \in Sources |-> 0]
  /\ approved = {} /\ version = 1
  /\ created = {} /\ open = {}
  /\ table = [i \in Items |-> {}]
  /\ wk = [w \in Workers |-> Idle]
  /\ seen = [c \in Sources |-> {}]

-----------------------------------------------------------------------------
(***************************************************************************)
(* Collection and cleaning.                                                *)
(***************************************************************************)
ItemSources(i) == {c \in Sources : ItemOf[c] = i}
RawTable(i) == UNION {{r.row : r \in raw[c]} : c \in ItemSources(i)}

\* What a request of enqueue_clean_latest chooses from: sources of an item, and
\* of the day or the minute scope that the request names.
SameSelection(c, d) ==
  /\ ItemOf[c] = ItemOf[d]
  /\ ItemOf[c] \in TradeDateItems \cup {"stock_minute"} => ScopeOf[c] = ScopeOf[d]

\* ON CONFLICT on the content hash DO NOTHING: only what the table lacks.
Inserted(i, rows) ==
  {[at |-> n, row |-> rows[n]] :
     n \in {m \in DOMAIN rows : /\ rows[m] \notin RawTable(i)
                               /\ \A k \in 1 .. m - 1 : rows[k] # rows[m]}}

Closed == {c \in Sources : stage[c] # "OPEN"}
WithinBounds(sources, versions, again) ==
  \E b \in Bounds : /\ sources \subseteq b.sources /\ versions <= b.versions
                    /\ again \subseteq b.again

\* A source closes and gets its CLEAN task.
Collect(c, rows) ==
  /\ stage[c] = "OPEN"
  /\ WithinBounds(Closed \cup {c}, version, {})
  /\ \A d \in Sources : SameSelection(c, d) /\ d < c => d \in Closed
  /\ stage' = [stage EXCEPT ![c] = "COLLECTED"]
  /\ raw' = [raw EXCEPT ![c] = Inserted(ItemOf[c], rows)]
  /\ created' = created \cup {<<"CLEAN", c, version>>}
  /\ open' = open \cup {<<"CLEAN", c, version>>}
  /\ UNCHANGED <<count, cand, ruled, approved, seen, version, table, wk>>

KnownCodes == {t.pay.code : t \in table["stock_basic"]}
NormalisedOf(c) == Normalised(ItemOf[c], raw[c], KnownCodes)
SkippedOf(c)    == SkippedRows(ItemOf[c], raw[c], KnownCodes)
PayloadsOf(c)   == {Payload(ItemOf[c], r) : r \in NormalisedOf(c)}

\* uq_clean_candidate_business_key: two raw keys may be one business key.
Collides(c) ==
  \E r, s \in NormalisedOf(c) :
    r # s /\ KeyOf(ItemOf[c], Payload(ItemOf[c], r)) = KeyOf(ItemOf[c], Payload(ItemOf[c], s))

\* enqueue_quality_for_clean_batch, within the transaction of the clean
QueueQuality(job) ==
  LET q == <<"QUALITY", job[2], version>>
  IN /\ created' = created \cup {q}
     /\ open' = (open \ {job}) \cup ({q} \ created)

CleanNew(job) ==
  LET c == job[2]
  IN /\ job \in open /\ job[1] = "CLEAN"
     /\ stage[c] = "COLLECTED" /\ ~Collides(c)
     /\ stage' = [stage EXCEPT ![c] = "CANDIDATE"]
     /\ cand' = [cand EXCEPT ![c] = PayloadsOf(c)]
     /\ count' = [count EXCEPT ![c] =
          [accepted |-> Cardinality(NormalisedOf(c)),
           skipped  |-> Cardinality(SkippedOf(c)),
           rejected |-> Cardinality(LatestByKey(ItemOf[c], raw[c]))
                        - Cardinality(NormalisedOf(c)) - Cardinality(SkippedOf(c))]]
     /\ ruled' = [ruled EXCEPT ![c] = version]
     /\ QueueQuality(job)
     /\ UNCHANGED <<raw, approved, seen, version, table, wk>>

\* The insert of the candidates violates their key, on every attempt.
CleanFails(job) ==
  /\ job \in open /\ job[1] = "CLEAN"
  /\ stage[job[2]] = "COLLECTED" /\ Collides(job[2])
  /\ open' = open \ {job}
  /\ UNCHANGED <<batchRows, version, created, table, wk>>

\* The batch is there: only a CANDIDATE gets a QUALITY task.
CleanAgain(job) ==
  /\ job \in open /\ job[1] = "CLEAN"
  /\ stage[job[2]] \notin {"OPEN", "COLLECTED"}
  /\ IF stage[job[2]] = "CANDIDATE" THEN QueueQuality(job)
     ELSE open' = open \ {job} /\ created' = created
  /\ UNCHANGED <<batchRows, version, table, wk>>

-----------------------------------------------------------------------------
(***************************************************************************)
(* The quality rules.  Only one that blocks is a rule here: a WARN changes *)
(* the quality_status of the rows and nothing else.                        *)
(***************************************************************************)
IsOpenDay(exch, day) ==
  \E t \in table["trade_calendar"] :
    t.pay.exch = exch /\ t.pay.day = day /\ t.pay.open
DailyRows(code, day) ==
  {t.pay : t \in {u \in table["stock_daily"] : u.pay.code = code /\ u.pay.day = day}}

\* QB-CLEAN-001 to 003 and QB-LIN-001
\* mutant: the raw rows are counted after _latest_by_key
UnaccountedLatest(c) ==
  count[c].accepted + count[c].skipped + count[c].rejected
    # Cardinality(LatestByKey(ItemOf[c], raw[c]))
Unaccounted(c) ==
  count[c].accepted + count[c].skipped + count[c].rejected # Cardinality(raw[c])
CountRules(c) ==
  \/ count[c].rejected > 0
  \/ Cardinality(raw[c]) > 0 /\ count[c].accepted = 0
  \/ Unaccounted(c)
  \/ count[c].accepted # Cardinality(cand[c])

\* QB-CAL-003, QB-CAL-004
CalendarRules(c) ==
  \/ \E p \in cand[c] : p.open /\ p.prev # Null /\ p.prev >= p.day
  \/ /\ ScopeOf[c].from # Null /\ ScopeOf[c].to # Null
     /\ Cardinality({p.day : p \in cand[c]}) # ScopeOf[c].to - ScopeOf[c].from + 1

\* QB-STOCK-005
BasicRules(c) ==
  \E p \in cand[c] : p.listed # Null /\ p.delisted # Null /\ p.listed > p.delisted

\* QB-DAY-003, QB-ADJ-005, QB-DB-002, QB-LIMIT-006: the day of the scope, and
\* the calendar of SSE for every exchange
ClosedDay(c) == ~IsOpenDay("SSE", ScopeOf[c].day)
\* QB-DAY-010, QB-ADJ-006, QB-DB-006, QB-SUS-003
\* mutant: unknown codes pass
NoUnknownCode(c) == FALSE
UnknownCode(c) == \E p \in cand[c] : p.code \notin KnownCodes

\* QB-DAY-004 and 005, QB-MIN-004 and 005
BadOhlc(p) ==
  \/ Null \in {p.open, p.high, p.low, p.close}
  \/ \E v \in {p.open, p.low, p.close} : p.high < v
  \/ \E v \in {p.open, p.close} : p.low > v
Negative(v) == v # Null /\ v < 0

DailyRules(c) ==
  \/ ClosedDay(c)
  \/ UnknownCode(c)
  \/ \E p \in cand[c] : BadOhlc(p) \/ Negative(p.vol) \/ Negative(p.amount)

FactorRules(c) == ClosedDay(c) \/ UnknownCode(c)

\* QB-DB-003, QB-DB-005: the close of the daily rows of the scope's day
\* mutant: the closes are not compared
CloseIgnored(c) == FALSE
CloseMismatch(c) ==
  \E p \in cand[c] : \E d \in DailyRows(p.code, ScopeOf[c].day) : d.close # p.close
DailyBasicRules(c) ==
  \/ ClosedDay(c)
  \/ UnknownCode(c)
  \/ \E p \in cand[c] : Negative(p.share)
  \/ CloseMismatch(c)

SuspendRules(c) == UnknownCode(c)

\* QB-LIMIT-002, QB-LIMIT-005
BadLimit(p) ==
  \/ p.pre # Null /\ p.pre <= 0
  \/ p.up = Null \/ p.down = Null
  \/ p.up <= p.down
OutsideLimit(p, d) ==
  /\ Null \notin {d.high, d.low, p.up, p.down}
  /\ d.high > p.up \/ d.low < p.down
DailyOutsideLimit(c) ==
  \E p \in cand[c] : \E d \in DailyRows(p.code, ScopeOf[c].day) : OutsideLimit(p, d)
LimitRules(c) ==
  \/ ClosedDay(c)
  \/ \E p \in cand[c] : BadLimit(p)
  \/ DailyOutsideLimit(c)

\* QB-MIN-010 returns at once; QB-MIN-011, 002, 003 and 012.
Times(c) == {p.time : p \in cand[c]}
MinuteDay(c) == Grid(ScopeOf[c].day)
DailyOf(c) == DailyRows(ScopeOf[c].code, ScopeOf[c].day)
\* mutant: a gap in the grid is let through
OutsideGrid(c) == Times(c) \ MinuteDay(c) # {}
NotTheGrid(c) == Times(c) # MinuteDay(c)
NoTradeDay(c) ==
  /\ DailyOf(c) = {}
  /\ ScopeOf[c].code \in KnownCodes =>
       ~ \E t \in table["stock_basic"] :
           t.pay.code = ScopeOf[c].code /\ IsOpenDay(t.pay.exch, ScopeOf[c].day)

\* The bar of a whole day, and QB-MIN-009, which only warns for BSE.
Before(s, t) == s[1] < t[1] \/ (s[1] = t[1] /\ s[2] < t[2])
FirstBar(c) == CHOOSE p \in cand[c] : \A q \in cand[c] : ~Before(q.time, p.time)
LastBar(c)  == CHOOSE p \in cand[c] : \A q \in cand[c] : ~Before(p.time, q.time)
IsMax(v, vals) == v \in vals /\ \A u \in vals : u <= v
IsMin(v, vals) == v \in vals /\ \A u \in vals : v <= u
AgreesWith(c, d) ==
  /\ d.open  # Null => FirstBar(c).open = d.open
  /\ d.close # Null => LastBar(c).close = d.close
  /\ d.high  # Null => IsMax(d.high, {p.high : p \in cand[c]})
  /\ d.low   # Null => IsMin(d.low, {p.low : p \in cand[c]})
ComparesDay(c) == DailyOf(c) # {} /\ ~NotTheGrid(c) /\ cand[c] # {}
OhlcMismatch(c) ==
  /\ ComparesDay(c)
  /\ \E d \in DailyOf(c) : ~AgreesWith(c, d)
  /\ ~ \E t \in table["stock_basic"] :
         t.pay.code = ScopeOf[c].code /\ t.pay.exch = "BSE"

MinuteRules(c) ==
  \/ ScopeOf[c].freq # FormalFrequency
  \/ ScopeOf[c].code \notin KnownCodes
  \/ NoTradeDay(c)
  \/ NotTheGrid(c)
  \/ \E p \in cand[c] : BadOhlc(p) \/ Negative(p.vol) \/ Negative(p.amount)
  \/ OhlcMismatch(c)

\* max() and min() over bars one of which has no high or low, and float() of
\* the first open or last close, raise TypeError.
ValidationRaises(c) ==
  /\ ItemOf[c] = "stock_minute" /\ ScopeOf[c].freq = FormalFrequency
  /\ ComparesDay(c)
  /\ \/ \E p \in cand[c] : Null \in {p.high, p.low}
     \/ Null \in {FirstBar(c).open, LastBar(c).close}

Blocks(c) ==
  \/ CountRules(c)
  \/ CASE ItemOf[c] = "trade_calendar"    -> CalendarRules(c)
       [] ItemOf[c] = "stock_basic"       -> BasicRules(c)
       [] ItemOf[c] = "stock_daily"       -> DailyRules(c)
       [] ItemOf[c] = "stock_adj_factor"  -> FactorRules(c)
       [] ItemOf[c] = "stock_daily_basic" -> DailyBasicRules(c)
       [] ItemOf[c] = "stock_suspend"     -> SuspendRules(c)
       [] ItemOf[c] = "stock_limit_price" -> LimitRules(c)
       [] ItemOf[c] = "stock_minute"      -> MinuteRules(c)

-----------------------------------------------------------------------------
(***************************************************************************)
(* The quality run.                                                        *)
(***************************************************************************)
BatchFree(c) == \A w \in Workers : wk[w].job[2] # c

\* A row whose business fields the table has already is not written.
ChangedRows(c) ==
  {p \in cand[c] : \A t \in table[ItemOf[c]] : t.pay # p}

Judge(w, job) ==
  LET c == job[2]
  IN /\ wk[w].job = NoJob
     /\ job \in open /\ job[1] = "QUALITY" /\ BatchFree(c)
     /\ ~ValidationRaises(c)
     /\ wk' = [wk EXCEPT ![w] =
                 [job |-> job, blocked |-> Blocks(c), changed |-> ChangedRows(c),
                  seen |-> approved]]
     /\ UNCHANGED <<batchRows, version, created, open, table>>

\* The exception rolls the run back; after the last attempt the task is FAILED.
JudgeFails(job) ==
  /\ job \in open /\ job[1] = "QUALITY" /\ BatchFree(job[2])
  /\ ValidationRaises(job[2])
  /\ open' = open \ {job}
  /\ UNCHANGED <<batchRows, version, created, table, wk>>

Block(w) ==
  LET c == wk[w].job[2]
  IN /\ wk[w].job # NoJob /\ wk[w].blocked
     /\ stage' = [stage EXCEPT ![c] = "BLOCKED"]
     /\ ruled' = [ruled EXCEPT ![c] = version]
     /\ open' = open \ {wk[w].job}
     /\ wk' = [wk EXCEPT ![w] = Idle]
     /\ UNCHANGED <<raw, count, cand, approved, seen, version, created, table>>

\* mutant: _clean_batch_id is not among the columns that are updated
LineageKept(i, rows, c) ==
  LET Old(p) == {t \in table[i] : KeyOf(i, t.pay) = KeyOf(i, p)}
      From(p) == IF Old(p) = {} THEN {c} ELSE {t.from : t \in Old(p)}
  IN (table[i] \ UNION {Old(p) : p \in rows})
       \cup UNION {{[pay |-> p, from |-> f] : f \in From(p)} : p \in rows}
\* ON CONFLICT on the business key DO UPDATE
Upserted(i, rows, c) ==
  {t \in table[i] : KeyOf(i, t.pay) \notin {KeyOf(i, p) : p \in rows}}
    \cup {[pay |-> p, from |-> c] : p \in rows}

\* mutant: the candidates of a published batch stay
KeptCandidates(c) == cand
RemainingCandidates(c) == [cand EXCEPT ![c] = {}]

SameScope(c, d) == ItemOf[c] = ItemOf[d] /\ ScopeOf[c] = ScopeOf[d]

Publish(w) ==
  LET c == wk[w].job[2]
  IN /\ wk[w].job # NoJob /\ ~wk[w].blocked
     /\ table' = [table EXCEPT ![ItemOf[c]] = Upserted(ItemOf[c], wk[w].changed, c)]
     /\ stage' = [d \in Sources |->
                    IF d = c THEN "PUBLISHED"
                    ELSE IF SameScope(c, d) /\ stage[d] = "PUBLISHED" THEN "SUPERSEDED"
                    ELSE stage[d]]
     /\ ruled' = [ruled EXCEPT ![c] = version]
     /\ cand' = RemainingCandidates(c)
     /\ approved' = approved \cup {c}
     /\ seen' = [seen EXCEPT ![c] = wk[w].seen]
     /\ open' = open \ {wk[w].job}
     /\ wk' = [wk EXCEPT ![w] = Idle]
     /\ UNCHANGED <<raw, count, version, created>>

-----------------------------------------------------------------------------
(***************************************************************************)
(* A new rule version, and the operator's enqueue_clean_latest.            *)
(***************************************************************************)
\* The workers restart with the new code; what they had in progress rolls back.
Deploy ==
  /\ WithinBounds(Closed, version + 1, {})
  /\ version' = version + 1
  /\ wk' = [w \in Workers |-> Idle]
  /\ UNCHANGED <<batchRows, created, open, table>>

\* The last one that closed, with raw rows unless none are normal.
Selection(c) ==
  {d \in Closed : SameSelection(c, d) /\ (ItemOf[c] # "stock_suspend" => raw[d] # {})}
IsLatest(c) == c \in Selection(c) /\ \A d \in Selection(c) : d <= c

\* A CLEAN task of this version, unless there is one.  If that one is done and
\* the batch unpublished under another version, a QUALITY task.
CleanLatest(c) ==
  LET clean == <<"CLEAN", c, version>>
      q     == <<"QUALITY", c, version>>
      job   == IF clean \notin created THEN clean ELSE q
  IN /\ IsLatest(c) /\ WithinBounds(Closed, version, {c})
     /\ job \notin created
     /\ job = q => /\ clean \notin open
                   /\ stage[c] \in {"CANDIDATE", "BLOCKED"}
                   /\ ruled[c] # version
     /\ created' = created \cup {job}
     /\ open' = open \cup {job}
     /\ UNCHANGED <<batchRows, version, table, wk>>

Next ==
  \/ \E c \in Sources : \E rows \in Answers[c] : Collect(c, rows)
  \/ \E job \in Jobs : CleanNew(job) \/ CleanFails(job) \/ CleanAgain(job)
  \/ \E w \in Workers, job \in Jobs : Judge(w, job)
  \/ \E job \in Jobs : JudgeFails(job)
  \/ \E w \in Workers : Block(w) \/ Publish(w)
  \/ Deploy
  \/ \E c \in Sources : CleanLatest(c)

Spec == Init /\ [][Next]_vars

-----------------------------------------------------------------------------
(***************************************************************************)
(* Properties.                                                             *)
(***************************************************************************)
\* Every security that a formal table of daily or minute data names is in
\* security_master, although no foreign key says so: each batch is checked
\* against the master as it was when the batch was normalised or judged.
KnownSecurities ==
  \A i \in TradeDateItems \cup {"stock_minute"} :
    \A t \in table[i] : t.pay.code \in KnownCodes

\* Every row of a formal table is what normalisation makes of a raw row of the
\* batch that the row names, so its lineage can be followed to the answer of the
\* provider, whichever batch wrote the key before.
RowsComeFromRaw ==
  \A i \in Items : \A t \in table[i] :
    \E r \in raw[t.from] : Accepts(i, r.row, KnownCodes) /\ t.pay = Payload(i, r.row)

\* Conversely an approved batch was taken as a whole: each of its raw rows is
\* one that normalisation skips, or its key is in the formal table, though other
\* batches of the key were judged and published meanwhile.  Not so for a price
\* limit, which is skipped as long as its security is unknown.
NothingDropped ==
  \A c \in {d \in approved : ItemOf[d] # "stock_limit_price"} : \A r \in raw[c] :
    \/ Skips(ItemOf[c], r.row, KnownCodes)
    \/ /\ Accepts(ItemOf[c], r.row, KnownCodes)
       /\ \E t \in table[ItemOf[c]] :
            KeyOf(ItemOf[c], t.pay) = KeyOf(ItemOf[c], Payload(ItemOf[c], r.row))

TablesMirrorRaw == RowsComeFromRaw /\ NothingDropped

\* When the pages or attempts of one collection disagree about a key, nothing
\* of it is published: _latest_by_key would have chosen one of the answers, and
\* QB-CLEAN-003 compares the counts with the raw rows before that choice.
NoSilentChoice ==
  \A c \in approved : \A m, n \in raw[c] :
    RawKey(ItemOf[c], m.row) = RawKey(ItemOf[c], n.row) => m = n

\* The published minutes of a security on a day are none or the whole grid,
\* whatever batches they come from (QB-MIN-003, QB-MIN-012).
MinuteDayComplete ==
  \A t \in table["stock_minute"] :
    LET mine == {u.pay.time : u \in {v \in table["stock_minute"] :
                    v.pay.code = t.pay.code /\ v.pay.time[1] = t.pay.time[1]}}
    IN mine = Grid(t.pay.time[1])

\* Two published rows contradict each other only when the one that a rule
\* should have compared with was published after the other was judged: no
\* judgement overlooks what it could read, whatever commits between its reads
\* and its own commit.
OnScopeDay(t) == ItemOf[t.from] \in TradeDateItems => t.pay.day = ScopeOf[t.from].day
Contradicts(t, d) ==
  \/ /\ ItemOf[t.from] = "stock_daily_basic" /\ ItemOf[d.from] = "stock_daily"
     /\ t.pay.code = d.pay.code /\ t.pay.day = d.pay.day
     /\ t.pay.close # d.pay.close
  \/ /\ ItemOf[t.from] = "stock_limit_price" /\ ItemOf[d.from] = "stock_daily"
     /\ t.pay.code = d.pay.code /\ t.pay.day = d.pay.day
     /\ OutsideLimit(t.pay, d.pay)
  \/ /\ ItemOf[t.from] \in TradeDateItems \ {"stock_suspend"}
     /\ ItemOf[d.from] = "trade_calendar" /\ d.pay.exch = "SSE"
     /\ t.pay.day = d.pay.day /\ ~d.pay.open
ConflictsAreLater ==
  \A i, j \in Items : \A t \in table[i], d \in table[j] :
    OnScopeDay(t) /\ Contradicts(t, d) => d.from \notin seen[t.from]

\* A batch that has been published never writes to its table again, however
\* many QUALITY tasks a new rule version brought it: it could only put back
\* rows that a later batch has revised.
WritesOnce ==
  [][\A c \in approved : \A i \in Items :
       {t \in table'[i] : t.from = c} \subseteq {t \in table[i] : t.from = c}]_vars
=============================================================================
