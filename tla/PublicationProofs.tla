-------------------------- MODULE PublicationProofs --------------------------
(***************************************************************************)
(* The safety properties of the publication of the eight DataItems, for    *)
(* any number of workers, sources and rule versions and any answers.       *)
(***************************************************************************)
EXTENDS Publication, FiniteSetTheorems, TLAPS

Minute  == "stock_minute"
Watched == TradeDateItems \cup {Minute}

\* The batch exists.
Cleaned(c) == stage[c] \notin {"OPEN", "COLLECTED"}

Functions ==
  /\ DOMAIN raw = Sources /\ DOMAIN cand = Sources
  /\ DOMAIN table = Items /\ DOMAIN wk = Workers

\* Raw rows come from one answer, each from a place of its own.
RawRows ==
  \A c \in Sources :
    /\ IsFiniteSet(raw[c])
    /\ \A m, n \in raw[c] : m.at = n.at => m = n
    /\ ItemOf[c] = Minute => \A m \in raw[c] : m.row.code = ScopeOf[c].code

\* Candidates have keys of their own, and what a clean knows of their codes.
Candidates ==
  \A c \in Sources :
    /\ \A p, q \in cand[c] : KeyOf(ItemOf[c], p) = KeyOf(ItemOf[c], q) => p = q
    /\ ItemOf[c] = "stock_limit_price" => \A p \in cand[c] : p.code \in KnownCodes
    /\ ItemOf[c] = Minute =>
         \A p \in cand[c] : p.code = ScopeOf[c].code /\ p.freq = FormalFrequency

\* The counts of a batch add up to the rows that _latest_by_key has left, and a
\* batch without accepted rows has no candidates.
Sum(c) == count[c].accepted + count[c].skipped + count[c].rejected
CountsAddUp ==
  \A c \in Sources :
    /\ Cleaned(c) => Sum(c) = Cardinality(LatestByKey(ItemOf[c], raw[c]))
    /\ count[c].accepted = 0 => cand[c] = {}

\* A QUALITY task has a batch, and a published batch no candidates.
Batches ==
  /\ \A job \in created : job[1] = "QUALITY" => Cleaned(job[2])
  /\ \A c \in approved : Cleaned(c) /\ cand[c] = {}
  /\ \A c \in Sources : seen[c] \subseteq approved

\* A worker judges a batch that no other worker has.
WorkerHasBatch ==
  /\ \A w \in Workers : wk[w].job # NoJob =>
       /\ wk[w].job \in open /\ wk[w].job[1] = "QUALITY"
       /\ wk[w].changed \subseteq cand[wk[w].job[2]]
       /\ wk[w].seen \subseteq approved
  /\ \A v, w \in Workers :
       v # w /\ wk[w].job # NoJob => wk[v].job[2] # wk[w].job[2]

\* What a run that found nothing to block knows until it commits.
OneAnswer(c) ==
  \A m, n \in raw[c] : RawKey(ItemOf[c], m.row) = RawKey(ItemOf[c], n.row) => m = n
HasKey(p) == \E t \in table[Minute] : KeyOf(Minute, t.pay) = KeyOf(Minute, p)
FillsDay(c, rows) ==
  ItemOf[c] = Minute =>
    /\ Times(c) = MinuteDay(c)
    /\ \A p \in cand[c] : p \in rows \/ HasKey(p)
Agrees(c, rows, known) ==
  \A p \in rows : \A j \in Items : \A d \in table[j] :
    LET t == [pay |-> p, from |-> c]
    IN d.from \in known /\ OnScopeDay(t) => ~Contradicts(t, d)
JudgedWell(c, rows, known) ==
  /\ OneAnswer(c)
  /\ count[c].accepted = Cardinality(cand[c])
  /\ ItemOf[c] \in Watched => \A p \in cand[c] : p.code \in KnownCodes
  /\ FillsDay(c, rows)
  /\ Agrees(c, rows, known)
Judged ==
  \A w \in Workers : wk[w].job # NoJob /\ ~wk[w].blocked =>
    \A c \in {wk[w].job[2]}, rows \in {wk[w].changed}, known \in {wk[w].seen} :
      JudgedWell(c, rows, known)

\* Rows come from batches that counted some.
RowsCounted == \A i \in Items : \A t \in table[i] : count[t.from].accepted # 0

MinutesAreFormal == \A t \in table[Minute] : t.pay.freq = FormalFrequency

Inv ==
  /\ TypeOK /\ Functions /\ RawRows /\ Candidates /\ CountsAddUp /\ Batches
  /\ WorkerHasBatch /\ Judged /\ RowsCounted /\ MinutesAreFormal
  /\ KnownSecurities /\ NoSilentChoice /\ MinuteDayComplete /\ ConflictsAreLater

-----------------------------------------------------------------------------
(***************************************************************************)
(* The operators.                                                          *)
(***************************************************************************)
\* A job names a source.
LEMMA JobSource ==
  ASSUME NEW job \in Jobs
  PROVE  job[2] \in Sources /\ job # NoJob
BY DEF Jobs, NoJob

\* An upsert keeps every key of the table.
LEMMA UpsertKeepsKeys ==
  ASSUME NEW i \in Items, NEW rows, NEW c, NEW t \in table[i]
  PROVE  \E u \in Upserted(i, rows, c) : KeyOf(i, u.pay) = KeyOf(i, t.pay)
<1>1. CASE \E p \in rows : KeyOf(i, p) = KeyOf(i, t.pay)
  <2>1. PICK p \in rows : KeyOf(i, p) = KeyOf(i, t.pay)
    BY <1>1
  <2>2. [pay |-> p, from |-> c] \in Upserted(i, rows, c)
    BY <2>1 DEF Upserted
  <2> QED BY <2>1, <2>2
<1>2. CASE ~ \E p \in rows : KeyOf(i, p) = KeyOf(i, t.pay)
  BY <1>2 DEF Upserted
<1> QED BY <1>1, <1>2

\* An upsert of rows with keys of their own leaves the keys unique.
LEMMA UpsertKeysUnique ==
  ASSUME NEW i \in Items, NEW rows, NEW c,
         \A p, q \in rows : KeyOf(i, p) = KeyOf(i, q) => p = q,
         \A t, u \in table[i] : KeyOf(i, t.pay) = KeyOf(i, u.pay) => t = u,
         NEW t \in Upserted(i, rows, c), NEW u \in Upserted(i, rows, c),
         KeyOf(i, t.pay) = KeyOf(i, u.pay)
  PROVE  t = u
BY DEF Upserted

\* Every row of an upsert is one of the table or one that is written.
LEMMA UpsertRows ==
  ASSUME NEW i \in Items, NEW rows, NEW c, NEW t \in Upserted(i, rows, c)
  PROVE  t \in table[i] \/ (t.pay \in rows /\ t.from = c)
BY DEF Upserted

\* The image of a finite set of raw rows is finite, and no larger.
LEMMA RowsFinite ==
  ASSUME NEW K, IsFiniteSet(K)
  PROVE  /\ IsFiniteSet({r.row : r \in K})
         /\ Cardinality({r.row : r \in K}) <= Cardinality(K)
<1> DEFINE T == {r.row : r \in K}
           f == [r \in K |-> r.row]
<1>1. f \in Surjection(K, T)
  BY DEF Surjection
<1> QED BY <1>1, FS_Surjection

\* When as many rows are left by _latest_by_key as there are, no key came twice.
LEMMA LatestOfAll ==
  ASSUME NEW i, NEW rows, IsFiniteSet(rows),
         \A n \in rows : n.at \in Nat,
         \A m, n \in rows : m.at = n.at => m = n
  PROVE  /\ IsFiniteSet(LatestByKey(i, rows))
         /\ Cardinality(LatestByKey(i, rows)) = Cardinality(rows) =>
              \A m, n \in rows : RawKey(i, m.row) = RawKey(i, n.row) => m = n
<1> DEFINE Kept == {n \in rows : \A m \in rows :
                      m.at > n.at => RawKey(i, m.row) # RawKey(i, n.row)}
<1>1. Kept \in SUBSET rows
  OBVIOUS
<1>2. LatestByKey(i, rows) = {r.row : r \in Kept}
  BY DEF LatestByKey
<1>3. /\ IsFiniteSet(Kept) /\ Cardinality(Kept) <= Cardinality(rows)
      /\ Cardinality(rows) = Cardinality(Kept) => rows = Kept
  <2> HIDE DEF Kept
  <2> QED BY <1>1, FS_Subset
<1>4. /\ IsFiniteSet({r.row : r \in Kept})
      /\ Cardinality({r.row : r \in Kept}) <= Cardinality(Kept)
  <2> HIDE DEF Kept
  <2> QED BY <1>3, RowsFinite
<1>5. Cardinality(Kept) \in Nat /\ Cardinality(rows) \in Nat
      /\ Cardinality({r.row : r \in Kept}) \in Nat
  <2> HIDE DEF Kept
  <2> QED BY <1>3, <1>4, FS_CardinalityType
<1>6. ASSUME Cardinality(LatestByKey(i, rows)) = Cardinality(rows)
      PROVE  rows = Kept
  <2> HIDE DEF Kept
  <2> QED BY <1>2, <1>3, <1>4, <1>5, <1>6
<1>7. ASSUME rows = Kept, NEW m \in rows, NEW n \in rows,
             RawKey(i, m.row) = RawKey(i, n.row)
      PROVE  m = n
  <2>1. ~(m.at > n.at) /\ ~(n.at > m.at)
    BY <1>7
  <2> QED BY <2>1
<1> QED BY <1>2, <1>4, <1>6, <1>7

\* The rows inserted of an answer are finitely many, each from its place.
LEMMA InsertedRows ==
  ASSUME NEW i \in Items, NEW rows \in Seq(RawRow[i])
  PROVE  /\ IsFiniteSet(Inserted(i, rows))
         /\ \A r \in Inserted(i, rows) :
              r.at \in DOMAIN rows /\ r.row = rows[r.at] /\ r = [at |-> r.at, row |-> r.row]
         /\ Inserted(i, rows) \subseteq [at : Nat, row : RawRow[i]]
<1> DEFINE M == {m \in DOMAIN rows : /\ rows[m] \notin RawTable(i)
                                     /\ \A k \in 1 .. m - 1 : rows[k] # rows[m]}
           f == [n \in M |-> [at |-> n, row |-> rows[n]]]
<1>1. DOMAIN rows = 1 .. Len(rows) /\ Len(rows) \in Nat
  OBVIOUS
<1>2. Inserted(i, rows) = {[at |-> n, row |-> rows[n]] : n \in M}
  BY DEF Inserted
<1>3. M \in SUBSET (1 .. Len(rows))
  BY <1>1
<1>4. \A n \in M : n \in Nat /\ n \in DOMAIN rows /\ rows[n] \in RawRow[i]
  BY <1>1
<1> HIDE DEF M
<1>5. IsFiniteSet(1 .. Len(rows))
  BY <1>1, FS_Interval
<1>6. IsFiniteSet(M)
  BY <1>3, <1>5, FS_Subset
<1>7. f \in Surjection(M, Inserted(i, rows))
  BY <1>2 DEF Surjection
<1>8. IsFiniteSet(Inserted(i, rows))
  BY <1>6, <1>7, FS_Surjection
<1> QED BY <1>2, <1>4, <1>8

-----------------------------------------------------------------------------
(***************************************************************************)
(* What a step leaves alone.                                               *)
(***************************************************************************)
LEMMA StepCases ==
  ASSUME Next
  PROVE  \/ \E c \in Sources : \E rows \in Answers[c] : Collect(c, rows)
         \/ \E job \in Jobs : CleanNew(job)
         \/ \E job \in Jobs : CleanFails(job) \/ CleanAgain(job) \/ JudgeFails(job)
         \/ \E w \in Workers, job \in Jobs : Judge(w, job)
         \/ \E w \in Workers : Block(w)
         \/ \E w \in Workers : Publish(w)
         \/ Deploy
         \/ \E c \in Sources : CleanLatest(c)
BY DEF Next

\* The batch a worker holds.
LEMMA HeldBatch ==
  ASSUME Inv, NEW w \in Workers, wk[w].job # NoJob
  PROVE  /\ wk[w].job \in Jobs /\ wk[w].job \in open /\ wk[w].job \in created
         /\ wk[w].job[1] = "QUALITY"
         /\ wk[w].job[2] \in Sources /\ Cleaned(wk[w].job[2])
         /\ wk[w].changed \subseteq cand[wk[w].job[2]]
         /\ wk[w].seen \subseteq approved
<1>1. wk[w].job \in open /\ open \subseteq created /\ created \subseteq Jobs
  BY DEF Inv, TypeOK
<1> QED BY <1>1, JobSource DEF Inv, WorkerHasBatch, Batches

\* A batch that exists keeps its raw rows and counts, and its candidates until
\* they are published.
LEMMA BatchStays ==
  ASSUME Inv, Next, NEW d \in Sources, Cleaned(d)
  PROVE  /\ Cleaned(d)' /\ raw'[d] = raw[d] /\ count'[d] = count[d]
         /\ cand'[d] = cand[d] \/ cand'[d] = {}
         /\ d \in approved => d \in approved'
<1> USE DEF Cleaned
<1>0. Functions /\ TypeOK
  BY DEF Inv
<1>1. ASSUME NEW c \in Sources, NEW rows \in Answers[c], Collect(c, rows)
      PROVE  c # d /\ stage'[d] = stage[d] /\ raw'[d] = raw[d]
             /\ UNCHANGED <<count, cand, approved>>
  BY <1>0, <1>1 DEF Collect, Functions, TypeOK
<1>2. ASSUME NEW job \in Jobs, CleanNew(job)
      PROVE  /\ stage'[d] = stage[d] /\ count'[d] = count[d] /\ cand'[d] = cand[d]
             /\ UNCHANGED <<raw, approved>>
  <2> DEFINE c == job[2]
  <2>1. c \in Sources /\ c # d
    BY <1>2, JobSource DEF CleanNew
  <2> QED BY <1>0, <1>2, <2>1 DEF CleanNew, Functions, TypeOK
<1>3. ASSUME NEW w \in Workers, Block(w)
      PROVE  /\ stage'[d] = stage[d] \/ stage'[d] = "BLOCKED"
             /\ UNCHANGED <<raw, count, cand, approved>>
  BY <1>0, <1>3 DEF Block, TypeOK
<1>4. ASSUME NEW w \in Workers, Publish(w)
      PROVE  /\ stage'[d] \in {stage[d], "PUBLISHED", "SUPERSEDED"}
             /\ cand'[d] \in {cand[d], {}}
             /\ approved \subseteq approved'
             /\ UNCHANGED <<raw, count>>
  BY <1>0, <1>4 DEF Publish, RemainingCandidates, Functions, TypeOK
<1>5. CASE UNCHANGED batchRows
  BY <1>5 DEF batchRows
<1> QED
  BY <1>1, <1>2, <1>3, <1>4, <1>5, StepCases
     DEF CleanFails, CleanAgain, JudgeFails, Judge, Deploy, CleanLatest

\* Only Publish writes the tables, and it writes what its worker has.
Writes(w, i, t) ==
  /\ Publish(w) /\ ItemOf[wk[w].job[2]] = i
  /\ t.pay \in wk[w].changed /\ t.from = wk[w].job[2]

LEMMA TableStep ==
  ASSUME Inv, Next, NEW i \in Items
  PROVE  /\ DOMAIN table' = Items
         /\ \A t \in table'[i] : t \in table[i] \/ \E w \in Workers : Writes(w, i, t)
         /\ \A t \in table[i] : \E u \in table'[i] : KeyOf(i, u.pay) = KeyOf(i, t.pay)
<1>0. Functions
  BY DEF Inv
<1>1. CASE \E w \in Workers : Publish(w)
  <2>1. PICK w \in Workers : Publish(w)
    BY <1>1
  <2> DEFINE c == wk[w].job[2]
  <2>2. c \in Sources /\ ItemOf[c] \in Items
    BY <2>1, HeldBatch, PublicationConstants DEF Publish
  <2>3. /\ DOMAIN table' = Items
        /\ table'[i] = IF i = ItemOf[c] THEN Upserted(i, wk[w].changed, c) ELSE table[i]
    BY <1>0, <2>1, <2>2 DEF Publish, Functions
  <2>4. CASE i = ItemOf[c]
    <3>1. ASSUME NEW t \in table'[i]
          PROVE  t \in table[i] \/ Writes(w, i, t)
      <4>1. t \in Upserted(i, wk[w].changed, c)
        BY <2>3, <2>4
      <4>2. t \in table[i] \/ (t.pay \in wk[w].changed /\ t.from = c)
        BY <4>1, UpsertRows
      <4> QED BY <4>2, <2>1, <2>4 DEF Writes
    <3>2. \A t \in table[i] : \E u \in table'[i] : KeyOf(i, u.pay) = KeyOf(i, t.pay)
      BY <2>3, <2>4, UpsertKeepsKeys
    <3> QED BY <3>1, <3>2, <2>3
  <2> QED BY <2>3, <2>4
<1>2. CASE UNCHANGED table
  BY <1>0, <1>2 DEF Functions
<1> QED
  BY <1>1, <1>2, StepCases
     DEF Collect, CleanNew, CleanFails, CleanAgain, JudgeFails, Judge, Block, Deploy,
         CleanLatest, batchRows

\* security_master only grows.
LEMMA KnownGrows ==
  ASSUME Inv, Next
  PROVE  KnownCodes \subseteq KnownCodes'
<1> SUFFICES ASSUME NEW t \in table["stock_basic"]
             PROVE  \E u \in table'["stock_basic"] : u.pay.code = t.pay.code
  BY DEF KnownCodes
<1>1. "stock_basic" \in Items
  BY DEF Items
<1>2. PICK u \in table'["stock_basic"] :
        KeyOf("stock_basic", u.pay) = KeyOf("stock_basic", t.pay)
  BY <1>1, TableStep
<1>3. u.pay.code = t.pay.code
  BY <1>2 DEF KeyOf
<1> QED BY <1>3

-----------------------------------------------------------------------------
(***************************************************************************)
(* The parts of the invariant, one lemma each.                             *)
(***************************************************************************)
LEMMA FunctionsStep ==
  ASSUME Inv, Next
  PROVE  Functions'
<1>0. Functions
  BY DEF Inv
<1>1. DOMAIN raw' = Sources /\ DOMAIN cand' = Sources /\ DOMAIN wk' = Workers
  BY <1>0, StepCases
     DEF Functions, Collect, CleanNew, CleanFails, CleanAgain, JudgeFails, Judge, Block,
         Publish, RemainingCandidates, Deploy, CleanLatest, batchRows
<1>2. Items # {}
  BY DEF Items
<1> QED BY <1>1, <1>2, TableStep DEF Functions

LEMMA RawStep ==
  ASSUME Inv, Next
  PROVE  /\ RawRows'
         /\ \A c \in Sources : raw'[c] \subseteq [at : Nat, row : RawRow[ItemOf[c]]]
<1>0. Functions /\ TypeOK /\ RawRows
  BY DEF Inv
<1>1. ASSUME NEW c \in Sources, NEW rows \in Answers[c], Collect(c, rows)
      PROVE  /\ RawRows'
             /\ \A d \in Sources : raw'[d] \subseteq [at : Nat, row : RawRow[ItemOf[d]]]
  <2>1. /\ raw' = [raw EXCEPT ![c] = Inserted(ItemOf[c], rows)]
        /\ rows \in Seq(RawRow[ItemOf[c]]) /\ ItemOf[c] \in Items
    BY <1>1, PublicationConstants DEF Collect
  <2>2. /\ IsFiniteSet(Inserted(ItemOf[c], rows))
        /\ \A r \in Inserted(ItemOf[c], rows) :
             r.at \in DOMAIN rows /\ r.row = rows[r.at] /\ r = [at |-> r.at, row |-> r.row]
        /\ Inserted(ItemOf[c], rows) \subseteq [at : Nat, row : RawRow[ItemOf[c]]]
    BY <2>1, InsertedRows
  <2>3. ASSUME NEW d \in Sources
        PROVE  /\ raw'[d] \subseteq [at : Nat, row : RawRow[ItemOf[d]]]
               /\ IsFiniteSet(raw'[d])
               /\ \A m, n \in raw'[d] : m.at = n.at => m = n
               /\ ItemOf[d] = Minute => \A m \in raw'[d] : m.row.code = ScopeOf[d].code
    <3>1. CASE d = c
      <4>1. raw'[d] = Inserted(ItemOf[c], rows)
        BY <1>0, <2>1, <3>1 DEF Functions
      <4>2. \A m, n \in raw'[d] : m.at = n.at => m = n
        BY <2>2, <4>1
      <4>3. ItemOf[d] = Minute => \A m \in raw'[d] : m.row.code = ScopeOf[d].code
        BY <2>2, <3>1, <4>1, AnswersAreAboutTheSecurity DEF Minute
      <4> QED BY <2>2, <3>1, <4>1, <4>2, <4>3
    <3>2. CASE d # c
      <4>1. raw'[d] = raw[d]
        BY <1>0, <2>1, <3>2 DEF Functions
      <4> QED BY <4>1, <1>0 DEF RawRows, TypeOK
    <3> QED BY <3>1, <3>2
  <2> QED BY <2>3 DEF RawRows
<1>2. CASE UNCHANGED raw
  BY <1>0, <1>2 DEF RawRows, TypeOK
<1> QED
  BY <1>1, <1>2, StepCases
     DEF CleanNew, CleanFails, CleanAgain, JudgeFails, Judge, Block, Publish, Deploy,
         CleanLatest, batchRows

\* _normalize: the payload of an accepted row fits the formal table.
LEMMA PayloadFits ==
  ASSUME NEW item \in Items, NEW r \in RawRow[item], NEW known, Accepts(item, r, known)
  PROVE  Payload(item, r) \in FormalRow[item]
<1>1. CASE item = "trade_calendar"
  <2>1. r \in TushareTradeCal /\ AcceptsCalendar(r)
    BY <1>1 DEF RawRow, Accepts
  <2>2. CalendarRow(r) \in TradeCalendar
    BY <2>1 DEF TushareTradeCal, AcceptsCalendar, CalendarRow, TradeCalendar, RawDate, Num
  <2> QED BY <1>1, <2>2 DEF Payload, FormalRow
<1>2. CASE item = "stock_basic"
  <2>1. r \in TushareStockBasic /\ AcceptsBasic(r)
    BY <1>2 DEF RawRow, Accepts
  <2>2. r \in SecurityMaster
    <3>1. ExchangeOf[r.code] \in Exchanges
      BY <2>1, MarketDataConstants DEF AcceptsBasic
    <3> QED
      BY <2>1, <3>1 DEF TushareStockBasic, AcceptsBasic, SecurityMaster, RawDate, Num
  <2> QED BY <1>2, <2>2 DEF Payload, FormalRow
<1>3. CASE item = "stock_daily"
  <2>1. r \in TushareDaily /\ AcceptsDaily(r)
    BY <1>3 DEF RawRow, Accepts
  <2>2. Exact(r.vol, 100) \in Num /\ Scaled(r.amount, 1000) \in Num
    BY <2>1
       DEF AcceptsDaily, TushareDaily, RawNum, IsExact, Exact, Scaled, Finite, Num
  <2>3. /\ r.code \in CanonCodes /\ r.day \in Int
        /\ r.open \in Num /\ r.high \in Num /\ r.low \in Num /\ r.close \in Num
    BY <2>1 DEF AcceptsDaily, AcceptsDay, TushareDaily, RawNum, Finite, Num
  <2>4. DailyRow(r) \in StockDaily
    <3> DEFINE v == Exact(r.vol, 100)
               a == Scaled(r.amount, 1000)
               q == [r EXCEPT !.vol = v]
    <3>1. r \in [code : CanonCodes, day : Int, open : Num, high : Num, low : Num,
                 close : Num, vol : RawNum, amount : RawNum]
      BY <2>1, <2>3 DEF TushareDaily
    <3> HIDE DEF v, a
    <3>2. v \in Num /\ a \in Num
      BY <2>2 DEF v, a
    <3>3. q \in [code : CanonCodes, day : Int, open : Num, high : Num, low : Num,
                 close : Num, vol : Num, amount : RawNum]
      BY <3>1, <3>2
    <3>4. [r EXCEPT !.vol = v, !.amount = a] = [q EXCEPT !.amount = a]
      BY <3>1
    <3> HIDE DEF q
    <3>5. [q EXCEPT !.amount = a] \in StockDaily
      BY <3>2, <3>3 DEF StockDaily
    <3>6. DailyRow(r) = [r EXCEPT !.vol = v, !.amount = a]
      BY DEF DailyRow, v, a
    <3> QED BY <3>4, <3>5, <3>6
  <2> QED BY <1>3, <2>4 DEF Payload, FormalRow
<1>4. CASE item = "stock_adj_factor"
  <2>1. r \in TushareAdjFactor /\ AcceptsFactor(r)
    BY <1>4 DEF RawRow, Accepts
  <2>2. r \in StockAdjFactor
    <3>1. r.factor \in Nat \ {0} /\ r.code \in CanonCodes /\ r.day \in Int
      BY <2>1 DEF AcceptsFactor, AcceptsDay
    <3> QED BY <2>1, <3>1 DEF TushareAdjFactor, StockAdjFactor
  <2> QED BY <1>4, <2>2 DEF Payload, FormalRow
<1>5. CASE item = "stock_daily_basic"
  <2>1. r \in TushareDailyBasic /\ AcceptsDailyBasic(r)
    BY <1>5 DEF RawRow, Accepts
  <2>2. Exact(r.share, 10000) \in Num
    BY <2>1 DEF AcceptsDailyBasic, IsExact, Exact, Num
  <2>3. /\ r.code \in CanonCodes /\ r.day \in Int /\ r.close \in Num
        /\ r.limitStatus \in 0 .. 6 \cup {Null}
    BY <2>1 DEF AcceptsDailyBasic, AcceptsDay, TushareDailyBasic, RawNum, Finite, Num
  <2>4. BasicRow(r) \in StockDailyBasic
    BY <2>1, <2>2, <2>3 DEF TushareDailyBasic, BasicRow, StockDailyBasic
  <2> QED BY <1>5, <2>4 DEF Payload, FormalRow
<1>6. CASE item = "stock_suspend"
  <2>1. r \in TushareSuspendD /\ AcceptsSuspend(r)
    BY <1>6 DEF RawRow, Accepts
  <2>2. Timing(r.timing) \in {Null, "AM", "PM"}
    BY <2>1 DEF TushareSuspendD, Timing
  <2>3. SuspendRow(r) \in StockSuspendEvent
    BY <2>1, <2>2
       DEF TushareSuspendD, AcceptsSuspend, AcceptsDay, SuspendRow, StockSuspendEvent
  <2> QED BY <1>6, <2>3 DEF Payload, FormalRow
<1>7. CASE item = "stock_limit_price"
  <2>1. r \in TushareStkLimit /\ AcceptsLimit(r)
    BY <1>7 DEF RawRow, Accepts
  <2>2. r \in StockLimitPrice
    BY <2>1
       DEF TushareStkLimit, AcceptsLimit, AcceptsDay, RawNum, Finite, StockLimitPrice, Num
  <2> QED BY <1>7, <2>2 DEF Payload, FormalRow
<1>8. CASE item = "stock_minute"
  <2>1. r \in TushareStkMins /\ AcceptsMinute(r)
    BY <1>8 DEF RawRow, Accepts
  <2>2. Exact(r.vol, 1) \in Num
    BY <2>1 DEF AcceptsMinute, IsExact, Exact, Num
  <2>3. /\ r.code \in CanonCodes /\ r.time \in Int \X Int /\ r.amount \in Num
        /\ r.open \in Num /\ r.high \in Num /\ r.low \in Num /\ r.close \in Num
    BY <2>1 DEF AcceptsMinute, TushareStkMins, RawNum, Finite, Num
  <2>4. MinuteRow(r) \in StockMinute
    BY <2>1, <2>2, <2>3
       DEF TushareStkMins, AcceptsMinute, MinuteRow, StockMinute, FormalFrequency
  <2> QED BY <1>8, <2>4 DEF Payload, FormalRow
<1> QED BY <1>1, <1>2, <1>3, <1>4, <1>5, <1>6, <1>7, <1>8 DEF Items

LEMMA PayloadsFit ==
  ASSUME Inv, NEW c \in Sources
  PROVE  PayloadsOf(c) \subseteq FormalRow[ItemOf[c]]
<1> SUFFICES ASSUME NEW r \in NormalisedOf(c)
             PROVE  Payload(ItemOf[c], r) \in FormalRow[ItemOf[c]]
  BY DEF PayloadsOf
<1>1. PICK n \in raw[c] : r = n.row
  BY DEF NormalisedOf, Normalised, LatestByKey
<1>2. n \in [at : Nat, row : RawRow[ItemOf[c]]]
  BY DEF Inv, TypeOK
<1>3. r \in RawRow[ItemOf[c]] /\ ItemOf[c] \in Items
  BY <1>1, <1>2, PublicationConstants
<1>4. Accepts(ItemOf[c], r, KnownCodes)
  BY DEF NormalisedOf, Normalised
<1> QED BY <1>3, <1>4, PayloadFits

\* The candidates of a clean.
LEMMA CleanedCandidates ==
  ASSUME Inv, NEW c \in Sources, ~Collides(c)
  PROVE  /\ \A p, q \in PayloadsOf(c) : KeyOf(ItemOf[c], p) = KeyOf(ItemOf[c], q) => p = q
         /\ ItemOf[c] = "stock_limit_price" => \A p \in PayloadsOf(c) : p.code \in KnownCodes
         /\ ItemOf[c] = Minute =>
              \A p \in PayloadsOf(c) : p.code = ScopeOf[c].code /\ p.freq = FormalFrequency
<1>1. \A p, q \in PayloadsOf(c) : KeyOf(ItemOf[c], p) = KeyOf(ItemOf[c], q) => p = q
  BY DEF Collides, PayloadsOf
<1>2. ASSUME ItemOf[c] = "stock_limit_price", NEW p \in PayloadsOf(c)
      PROVE  p.code \in KnownCodes
  <2>1. p \in NormalisedOf(c)
    BY <1>2 DEF PayloadsOf, Payload
  <2>2. Accepts("stock_limit_price", p, KnownCodes)
    BY <1>2, <2>1 DEF NormalisedOf, Normalised
  <2>3. ~Skips("stock_limit_price", p, KnownCodes) /\ AcceptsLimit(p)
    BY <2>2 DEF Accepts
  <2> QED BY <2>3 DEF Skips, AcceptsLimit, AcceptsDay
<1>3. ASSUME ItemOf[c] = Minute, NEW p \in PayloadsOf(c)
      PROVE  p.code = ScopeOf[c].code /\ p.freq = FormalFrequency
  <2>1. PICK r \in NormalisedOf(c) : p = Payload(Minute, r)
    BY <1>3 DEF PayloadsOf
  <2>2. PICK n \in raw[c] : r = n.row
    BY <2>1 DEF NormalisedOf, Normalised, LatestByKey
  <2>3. /\ r.code = ScopeOf[c].code
        /\ n \in [at : Nat, row : TushareStkMins]
    BY <1>3, <2>2 DEF Inv, RawRows, TypeOK, RawRow, Minute
  <2>4. NormalFrequency(r.freq) = FormalFrequency
    BY <1>3, <2>1 DEF NormalisedOf, Normalised, Accepts, AcceptsMinute, Minute
  <2>5. p = MinuteRow(r)
    BY <2>1 DEF Payload, Minute
  <2>6. r \in TushareStkMins
    BY <2>2, <2>3
  <2>7. p.code = r.code /\ p.freq = NormalFrequency(r.freq)
    BY <2>5, <2>6 DEF MinuteRow, TushareStkMins
  <2> QED BY <2>3, <2>4, <2>7
<1> QED BY <1>1, <1>2, <1>3

LEMMA CandidatesFitStep ==
  ASSUME Inv, Next
  PROVE  \A d \in Sources : cand'[d] \subseteq FormalRow[ItemOf[d]]
<1>0. Functions /\ \A d \in Sources : cand[d] \subseteq FormalRow[ItemOf[d]]
  BY DEF Inv, TypeOK
<1>1. ASSUME NEW job \in Jobs, CleanNew(job)
      PROVE  \A d \in Sources : cand'[d] \subseteq FormalRow[ItemOf[d]]
  <2>1. /\ job[2] \in Sources
        /\ cand' = [cand EXCEPT ![job[2]] = PayloadsOf(job[2])]
    BY <1>1, JobSource DEF CleanNew
  <2> QED BY <1>0, <2>1, PayloadsFit DEF Functions
<1>2. ASSUME NEW w \in Workers, Publish(w)
      PROVE  \A d \in Sources : cand'[d] \subseteq FormalRow[ItemOf[d]]
  BY <1>0, <1>2 DEF Publish, RemainingCandidates, Functions
<1>3. CASE cand' = cand
  BY <1>0, <1>3
<1> QED
  BY <1>1, <1>2, <1>3, StepCases
     DEF Collect, CleanFails, CleanAgain, JudgeFails, Judge, Block, Deploy,
         CleanLatest, batchRows

LEMMA CandidatesStep ==
  ASSUME Inv, Next
  PROVE  Candidates'
<1>0. Functions /\ Candidates
  BY DEF Inv
<1>1. ASSUME NEW d \in Sources, cand'[d] = cand[d] \/ cand'[d] = {}
      PROVE  /\ \A p, q \in cand'[d] : KeyOf(ItemOf[d], p) = KeyOf(ItemOf[d], q) => p = q
             /\ ItemOf[d] = "stock_limit_price" => \A p \in cand'[d] : p.code \in KnownCodes'
             /\ ItemOf[d] = Minute =>
                  \A p \in cand'[d] : p.code = ScopeOf[d].code /\ p.freq = FormalFrequency
  BY <1>0, <1>1, KnownGrows DEF Candidates
<1>2. ASSUME NEW job \in Jobs, CleanNew(job)
      PROVE  Candidates'
  <2> DEFINE c == job[2]
  <2>1. /\ c \in Sources /\ ~Collides(c)
        /\ cand' = [cand EXCEPT ![c] = PayloadsOf(c)]
    BY <1>2, JobSource DEF CleanNew
  <2>2. cand'[c] = PayloadsOf(c) /\ \A d \in Sources : d # c => cand'[d] = cand[d]
    BY <1>0, <2>1 DEF Functions
  <2>3. /\ \A p, q \in cand'[c] : KeyOf(ItemOf[c], p) = KeyOf(ItemOf[c], q) => p = q
        /\ ItemOf[c] = "stock_limit_price" => \A p \in cand'[c] : p.code \in KnownCodes'
        /\ ItemOf[c] = Minute =>
             \A p \in cand'[c] : p.code = ScopeOf[c].code /\ p.freq = FormalFrequency
    BY <2>1, <2>2, CleanedCandidates, KnownGrows
  <2> HIDE DEF c
  <2> QED BY <1>1, <2>2, <2>3 DEF Candidates
<1>3. ASSUME \A d \in Sources : cand'[d] = cand[d] \/ cand'[d] = {}
      PROVE  Candidates'
  BY <1>1, <1>3 DEF Candidates
<1>4. ASSUME NEW w \in Workers, Publish(w)
      PROVE  \A d \in Sources : cand'[d] = cand[d] \/ cand'[d] = {}
  BY <1>0, <1>4 DEF Publish, RemainingCandidates, Functions
<1> QED
  BY <1>2, <1>3, <1>4, StepCases
     DEF Collect, CleanFails, CleanAgain, JudgeFails, Judge, Block, Deploy,
         CleanLatest, batchRows

\* The batches that a step makes.
LEMMA NewlyCleaned ==
  ASSUME Inv, Next, NEW c \in Sources, ~Cleaned(c), Cleaned(c)'
  PROVE  \E job \in Jobs : CleanNew(job) /\ job[2] = c
<1> USE DEF Cleaned
<1>0. TypeOK
  BY DEF Inv
<1>1. ASSUME NEW d \in Sources, NEW rows \in Answers[d], Collect(d, rows)
      PROVE  ~Cleaned(c)'
  BY <1>0, <1>1 DEF Collect, TypeOK
<1>2. ASSUME NEW job \in Jobs, CleanNew(job), job[2] # c
      PROVE  ~Cleaned(c)'
  BY <1>0, <1>2, JobSource DEF CleanNew, TypeOK
<1>3. ASSUME NEW w \in Workers, Block(w)
      PROVE  ~Cleaned(c)'
  BY <1>0, <1>3, HeldBatch DEF Block, TypeOK
<1>4. ASSUME NEW w \in Workers, Publish(w)
      PROVE  ~Cleaned(c)'
  <2>1. wk[w].job[2] # c
    BY <1>4, HeldBatch DEF Publish
  <2> QED BY <1>4, <2>1 DEF Publish
<1>5. CASE UNCHANGED batchRows
  BY <1>5 DEF batchRows
<1> QED
  BY <1>1, <1>2, <1>3, <1>4, <1>5, StepCases
     DEF CleanFails, CleanAgain, JudgeFails, Judge, Deploy, CleanLatest

LEMMA NormalisedIsFinite ==
  ASSUME Inv, NEW c \in Sources
  PROVE  /\ IsFiniteSet(LatestByKey(ItemOf[c], raw[c]))
         /\ IsFiniteSet(NormalisedOf(c))
         /\ Cardinality(LatestByKey(ItemOf[c], raw[c])) \in Nat
         /\ Cardinality(NormalisedOf(c)) \in Nat
         /\ Cardinality(SkippedOf(c)) \in Nat
         /\ Cardinality(NormalisedOf(c)) + Cardinality(SkippedOf(c))
              <= Cardinality(LatestByKey(ItemOf[c], raw[c]))
<1> DEFINE L == LatestByKey(ItemOf[c], raw[c])
<1>1. \A n \in raw[c] : n.at \in Nat
  BY DEF Inv, TypeOK
<1>2. IsFiniteSet(raw[c]) /\ \A m, n \in raw[c] : m.at = n.at => m = n
  BY DEF Inv, RawRows
<1>3. IsFiniteSet(L)
  BY <1>1, <1>2, LatestOfAll
<1>4. NormalisedOf(c) \in SUBSET L /\ SkippedOf(c) \in SUBSET L
      /\ NormalisedOf(c) \cap SkippedOf(c) = {}
  BY DEF NormalisedOf, SkippedOf, Normalised, SkippedRows, Accepts
<1> HIDE DEF L
<1>5. IsFiniteSet(NormalisedOf(c)) /\ IsFiniteSet(SkippedOf(c))
  BY <1>3, <1>4, FS_Subset
<1>6. /\ IsFiniteSet(NormalisedOf(c) \cup SkippedOf(c))
      /\ Cardinality(NormalisedOf(c) \cup SkippedOf(c))
           = Cardinality(NormalisedOf(c)) + Cardinality(SkippedOf(c))
             - Cardinality(NormalisedOf(c) \cap SkippedOf(c))
  BY <1>5, FS_Union
<1>7. Cardinality(NormalisedOf(c) \cap SkippedOf(c)) = 0
  BY <1>4, FS_EmptySet
<1>8. Cardinality(NormalisedOf(c) \cup SkippedOf(c)) <= Cardinality(L)
  <2>1. NormalisedOf(c) \cup SkippedOf(c) \in SUBSET L
    BY <1>4
  <2> QED BY <1>3, <2>1, FS_Subset
<1>9. /\ Cardinality(NormalisedOf(c)) \in Nat /\ Cardinality(SkippedOf(c)) \in Nat
      /\ Cardinality(L) \in Nat
  BY <1>3, <1>5, FS_CardinalityType
<1> QED BY <1>3, <1>5, <1>6, <1>7, <1>8, <1>9 DEF L

LEMMA CountsStep ==
  ASSUME Inv, Next
  PROVE  CountsAddUp' /\ count' \in [Sources -> Counts]
<1>0. TypeOK /\ CountsAddUp /\ Functions
  BY DEF Inv
<1>1. ASSUME NEW job \in Jobs, CleanNew(job)
      PROVE  LET c == job[2]
             IN  /\ count' \in [Sources -> Counts]
                 /\ Sum(c)' = Cardinality(LatestByKey(ItemOf[c], raw[c]))
                 /\ count'[c].accepted = 0 => cand'[c] = {}
                 /\ raw' = raw
                 /\ \A d \in Sources \ {c} : count'[d] = count[d] /\ cand'[d] = cand[d]
  <2> DEFINE c == job[2]
             n == Cardinality(NormalisedOf(c))
             k == Cardinality(SkippedOf(c))
             l == Cardinality(LatestByKey(ItemOf[c], raw[c]))
             r == [accepted |-> n, skipped |-> k, rejected |-> l - n - k]
  <2>1. /\ c \in Sources /\ count' = [count EXCEPT ![c] = r] /\ raw' = raw
        /\ cand' = [cand EXCEPT ![c] = PayloadsOf(c)]
    BY <1>1, JobSource DEF CleanNew
  <2>2. /\ n \in Nat /\ k \in Nat /\ l \in Nat /\ n + k <= l
        /\ n = 0 => NormalisedOf(c) = {}
    BY <2>1, NormalisedIsFinite, FS_EmptySet
  <2>3. n = 0 => PayloadsOf(c) = {}
    BY <2>2 DEF PayloadsOf
  <2> HIDE DEF n, k, l
  <2>4. r \in Counts /\ r.accepted = n /\ r.accepted + r.skipped + r.rejected = l
    BY <2>2 DEF Counts
  <2> HIDE DEF r, c
  <2>5. /\ count' \in [Sources -> Counts] /\ count'[c] = r /\ cand'[c] = PayloadsOf(c)
        /\ \A d \in Sources \ {c} : count'[d] = count[d] /\ cand'[d] = cand[d]
    BY <1>0, <2>1, <2>4 DEF TypeOK, Functions
  <2>6. Sum(c)' = l
    <3>1. Sum(c)' = count'[c].accepted + count'[c].skipped + count'[c].rejected
      BY DEF Sum
    <3> QED BY <2>4, <2>5, <3>1
  <2> QED BY <2>1, <2>3, <2>4, <2>5, <2>6 DEF l, c
<1>2. ASSUME NEW w \in Workers, Publish(w)
      PROVE  count' = count /\ \A d \in Sources : cand'[d] \in {cand[d], {}}
  BY <1>0, <1>2 DEF Publish, RemainingCandidates, Functions
<1>3. CASE \E job \in Jobs : CleanNew(job)
  <2>1. PICK job \in Jobs : CleanNew(job)
    BY <1>3
  <2> DEFINE c == job[2]
  <2>2. /\ Sum(c)' = Cardinality(LatestByKey(ItemOf[c], raw'[c]))
        /\ count'[c].accepted = 0 => cand'[c] = {}
    BY <1>1, <2>1
  <2>3. ASSUME NEW d \in Sources \ {c}
        PROVE  /\ Cleaned(d)' => Sum(d)' = Cardinality(LatestByKey(ItemOf[d], raw'[d]))
               /\ count'[d].accepted = 0 => cand'[d] = {}
    <3>1. /\ count'[d] = count[d] /\ cand'[d] = cand[d] /\ raw'[d] = raw[d]
          /\ stage'[d] = stage[d]
      BY <1>0, <1>1, <2>1 DEF CleanNew, TypeOK
    <3> QED BY <1>0, <3>1 DEF CountsAddUp, Sum, Cleaned
  <2> HIDE DEF c
  <2>4. CountsAddUp'
    BY <2>2, <2>3 DEF CountsAddUp
  <2> QED BY <1>1, <2>1, <2>4
<1>4. CASE ~ \E job \in Jobs : CleanNew(job)
  <2>1. count' = count /\ \A d \in Sources : cand'[d] \in {cand[d], {}}
    <3>1. (count' = count /\ cand' = cand) \/ \E w \in Workers : Publish(w)
      BY <1>4, StepCases
         DEF Collect, CleanFails, CleanAgain, JudgeFails, Judge, Block,
             Deploy, CleanLatest, batchRows
    <3> QED BY <1>2, <3>1
  <2>2. ASSUME NEW d \in Sources, Cleaned(d)'
        PROVE  Sum(d)' = Cardinality(LatestByKey(ItemOf[d], raw'[d]))
    <3>1. Cleaned(d)
      BY <1>4, <2>2, NewlyCleaned
    <3>2. raw'[d] = raw[d] /\ Sum(d)' = Sum(d)
      BY <2>1, <3>1, BatchStays DEF Sum
    <3> QED BY <1>0, <3>1, <3>2 DEF CountsAddUp
  <2>3. \A d \in Sources : count'[d].accepted = 0 => cand'[d] = {}
    BY <1>0, <2>1 DEF CountsAddUp
  <2>4. CountsAddUp'
    BY <2>2, <2>3 DEF CountsAddUp
  <2> QED BY <1>0, <2>1, <2>4 DEF TypeOK
<1> QED BY <1>3, <1>4

\* Only Publish approves a batch, and only its own.
LEMMA ApprovedStep ==
  ASSUME Inv, Next
  PROVE  \/ approved' = approved
         \/ \E w \in Workers : Publish(w) /\ approved' = approved \cup {wk[w].job[2]}
<1>1. ASSUME NEW w \in Workers, Publish(w)
      PROVE  approved' = approved \cup {wk[w].job[2]}
  BY <1>1 DEF Publish
<1>2. ASSUME NEW w \in Workers, Block(w)
      PROVE  approved' = approved
  BY <1>2 DEF Block
<1> QED
  BY <1>1, <1>2, StepCases
     DEF Collect, CleanNew, CleanFails, CleanAgain, JudgeFails, Judge, Deploy,
         CleanLatest, batchRows

LEMMA BatchesStep ==
  ASSUME Inv, Next
  PROVE  /\ Batches' /\ open' \subseteq created' /\ created' \subseteq Jobs
         /\ stage' \in [Sources -> Stages] /\ version' \in 1 .. MaxVersion
<1>0. TypeOK /\ Batches /\ Functions
  BY DEF Inv
<1>1. version' \in 1 .. MaxVersion
  <2>1. CASE Deploy
    <3>1. PICK b \in Bounds : version + 1 <= b.versions
      BY <2>1 DEF Deploy, WithinBounds
    <3>2. b.versions \in 1 .. MaxVersion /\ MaxVersion \in Nat
      BY PublicationConstants
    <3> QED BY <1>0, <2>1, <3>1, <3>2 DEF Deploy, TypeOK
  <2> QED
    BY <1>0, <2>1, StepCases
       DEF TypeOK, Collect, CleanNew, CleanFails, CleanAgain, JudgeFails, Judge, Block,
           Publish, CleanLatest
<1>2. stage' \in [Sources -> Stages]
  <2>1. ASSUME NEW job \in Jobs, CleanNew(job)
        PROVE  stage' \in [Sources -> Stages]
    BY <1>0, <2>1, JobSource DEF CleanNew, TypeOK, Stages
  <2>2. ASSUME NEW w \in Workers, Block(w) \/ Publish(w)
        PROVE  stage' \in [Sources -> Stages]
    BY <1>0, <2>2, HeldBatch DEF Block, Publish, TypeOK, Stages
  <2> QED
    BY <1>0, <2>1, <2>2, StepCases
       DEF TypeOK, Stages, Collect, CleanFails, CleanAgain, JudgeFails, Judge,
           Deploy, CleanLatest, batchRows
<1>3. \A c \in Sources : <<"CLEAN", c, version>> \in Jobs /\ <<"QUALITY", c, version>> \in Jobs
  BY <1>0 DEF TypeOK, Jobs
<1>4. open' \subseteq created' /\ created' \subseteq Jobs
  <2>0. open \subseteq created /\ created \subseteq Jobs
    BY <1>0 DEF TypeOK
  <2>1. ASSUME NEW job \in Jobs, QueueQuality(job)
        PROVE  open' \subseteq created' /\ created' \subseteq Jobs
    <3>1. <<"QUALITY", job[2], version>> \in Jobs
      BY <1>3, JobSource
    <3> QED BY <2>0, <2>1, <3>1 DEF QueueQuality
  <2>2. ASSUME NEW c \in Sources, CleanLatest(c)
        PROVE  open' \subseteq created' /\ created' \subseteq Jobs
    BY <1>3, <2>0, <2>2 DEF CleanLatest
  <2>3. ASSUME NEW c \in Sources, NEW rows \in Answers[c], Collect(c, rows)
        PROVE  open' \subseteq created' /\ created' \subseteq Jobs
    BY <1>3, <2>0, <2>3 DEF Collect
  <2>4. ASSUME created' = created, open' \subseteq open
        PROVE  open' \subseteq created' /\ created' \subseteq Jobs
    BY <2>0, <2>4
  <2>5. ASSUME NEW job \in Jobs, CleanAgain(job)
        PROVE  open' \subseteq created' /\ created' \subseteq Jobs
    BY <2>1, <2>4, <2>5 DEF CleanAgain
  <2>6. ASSUME NEW job \in Jobs, CleanNew(job)
        PROVE  QueueQuality(job)
    BY <2>6 DEF CleanNew
  <2>7. ASSUME NEW w \in Workers, Block(w) \/ Publish(w)
        PROVE  created' = created /\ open' \subseteq open
    BY <2>7 DEF Block, Publish
  <2>8. ASSUME NEW job \in Jobs, CleanFails(job) \/ JudgeFails(job)
        PROVE  created' = created /\ open' \subseteq open
    BY <2>8 DEF CleanFails, JudgeFails
  <2>9. ASSUME \/ \E w \in Workers, job \in Jobs : Judge(w, job)
               \/ Deploy
        PROVE  created' = created /\ open' \subseteq open
    BY <2>9 DEF Judge, Deploy
  <2> QED BY <2>1, <2>2, <2>3, <2>4, <2>5, <2>6, <2>7, <2>8, <2>9, StepCases
\* A new QUALITY task is for a batch that exists.
<1>5. ASSUME NEW job \in created', job[1] = "QUALITY", job \notin created
      PROVE  job[2] \in Sources /\ Cleaned(job[2])'
  <2>1. ASSUME NEW j \in Jobs, CleanNew(j)
        PROVE  job[2] \in Sources /\ Cleaned(job[2])'
    <3>1. job = <<"QUALITY", j[2], version>> /\ j[2] \in Sources
      BY <1>5, <2>1, JobSource DEF CleanNew, QueueQuality
    <3>2. job[2] = j[2]
      BY <3>1
    <3>3. stage'[j[2]] = "CANDIDATE"
      BY <1>0, <2>1, <3>1 DEF CleanNew, TypeOK
    <3> QED BY <3>1, <3>2, <3>3 DEF Cleaned
  <2>2. ASSUME NEW j \in Jobs, CleanAgain(j)
        PROVE  job[2] \in Sources /\ Cleaned(job[2])'
    <3>1. /\ job = <<"QUALITY", j[2], version>> /\ j[2] \in Sources
          /\ stage[j[2]] = "CANDIDATE" /\ stage' = stage
      BY <1>5, <2>2, JobSource DEF CleanAgain, QueueQuality, batchRows
    <3>2. job[2] = j[2]
      BY <3>1
    <3> QED BY <3>1, <3>2 DEF Cleaned
  <2>3. ASSUME NEW c \in Sources, CleanLatest(c)
        PROVE  job[2] \in Sources /\ Cleaned(job[2])'
    <3>1. /\ job = <<"QUALITY", c, version>>
          /\ stage[c] \in {"CANDIDATE", "BLOCKED"} /\ stage' = stage
      BY <1>5, <2>3 DEF CleanLatest, batchRows
    <3>2. job[2] = c
      BY <3>1
    <3> QED BY <3>1, <3>2 DEF Cleaned
  <2>4. ASSUME NEW c \in Sources, NEW rows \in Answers[c], Collect(c, rows)
        PROVE  FALSE
    BY <1>5, <2>4 DEF Collect
  <2> QED
    BY <1>5, <2>1, <2>2, <2>3, <2>4, StepCases
       DEF CleanFails, JudgeFails, Judge, Block, Publish, Deploy
<1>6. ASSUME NEW job \in created', job[1] = "QUALITY"
      PROVE  Cleaned(job[2])'
  <2>1. CASE job \in created
    <3>1. job[2] \in Sources /\ Cleaned(job[2])
      BY <1>0, <1>6, <2>1, JobSource DEF Batches, TypeOK
    <3> QED BY <3>1, BatchStays
  <2> QED BY <1>5, <1>6, <2>1
<1>7. ASSUME NEW c \in approved'
      PROVE  Cleaned(c)' /\ cand'[c] = {}
  <2>1. CASE c \in approved
    <3>1. c \in Sources /\ Cleaned(c) /\ cand[c] = {}
      BY <1>0, <2>1 DEF TypeOK, Batches
    <3> QED BY <3>1, BatchStays
  <2>2. CASE c \notin approved
    <3>1. PICK w \in Workers : Publish(w) /\ c = wk[w].job[2]
      BY <1>7, <2>2, ApprovedStep
    <3>2. c \in Sources
      BY <3>1, HeldBatch DEF Publish
    <3> QED BY <1>0, <3>1, <3>2 DEF Publish, RemainingCandidates, Functions, Cleaned
  <2> QED BY <2>1, <2>2
<1>8. ASSUME NEW c \in Sources
      PROVE  seen'[c] \subseteq approved'
  <2>1. ASSUME NEW w \in Workers, Publish(w)
        PROVE  seen'[c] \subseteq approved'
    <3>1. seen' = [seen EXCEPT ![wk[w].job[2]] = wk[w].seen] /\ wk[w].seen \subseteq approved
      BY <2>1, HeldBatch DEF Publish
    <3>2. seen[c] \subseteq approved /\ approved \subseteq approved'
      BY <1>0, ApprovedStep DEF Batches
    <3>3. DOMAIN seen = Sources
      BY <1>0 DEF TypeOK
    <3> QED BY <3>1, <3>2, <3>3
  <2>2. CASE seen' = seen
    BY <1>0, <2>2, ApprovedStep DEF Batches
  <2> QED
    BY <2>1, <2>2, StepCases
       DEF Collect, CleanNew, CleanFails, CleanAgain, JudgeFails, Judge, Block,
           Deploy, CleanLatest, batchRows
<1> QED BY <1>1, <1>2, <1>4, <1>6, <1>7, <1>8 DEF Batches, Cleaned

\* A worker's run is the one it had, or it has just judged.
LEMMA WorkerStep ==
  ASSUME Inv, Next, NEW w \in Workers, wk'[w].job # NoJob
  PROVE  \/ \E job \in Jobs : Judge(w, job)
         \/ /\ wk'[w] = wk[w]
            /\ wk[w].job \in open'
            /\ cand'[wk[w].job[2]] = cand[wk[w].job[2]]
<1>0. Functions /\ WorkerHasBatch
  BY DEF Inv
<1> DEFINE c == wk[w].job[2]
           Same == wk'[w] = wk[w] /\ wk[w].job \in open' /\ cand'[c] = cand[c]
<1>1. ASSUME NEW v \in Workers, NEW job \in Jobs, Judge(v, job), v # w
      PROVE  Same
  <2>1. wk'[w] = wk[w] /\ UNCHANGED <<cand, open>>
    BY <1>0, <1>1 DEF Judge, Functions, batchRows
  <2> QED BY <2>1, HeldBatch
<1>2. ASSUME NEW v \in Workers, Block(v) \/ Publish(v)
      PROVE  v # w
  BY <1>0, <1>2 DEF Block, Publish, Functions, Idle
<1>3. ASSUME NEW v \in Workers, v # w, Block(v)
      PROVE  Same
  <2>1. wk'[w] = wk[w] /\ UNCHANGED cand /\ open' = open \ {wk[v].job}
    BY <1>0, <1>3 DEF Block, Functions
  <2>2. wk[v].job[2] # wk[w].job[2]
    BY <1>0, <1>3, <2>1 DEF WorkerHasBatch
  <2> QED BY <2>1, <2>2, HeldBatch
<1>4. ASSUME NEW v \in Workers, v # w, Publish(v)
      PROVE  Same
  <2>1. /\ wk'[w] = wk[w] /\ open' = open \ {wk[v].job}
        /\ cand' = [cand EXCEPT ![wk[v].job[2]] = {}]
    BY <1>0, <1>4 DEF Publish, RemainingCandidates, Functions
  <2>2. wk[v].job[2] # c
    BY <1>0, <1>4, <2>1 DEF WorkerHasBatch
  <2>3. wk[w].job \in open /\ c \in Sources
    BY <2>1, HeldBatch
  <2>4. cand'[c] = cand[c]
    BY <1>0, <2>1, <2>2, <2>3 DEF Functions
  <2>5. wk[w].job # wk[v].job
    BY <2>2
  <2> QED BY <2>1, <2>3, <2>4, <2>5
<1>5. ASSUME NEW job \in Jobs, CleanNew(job)
      PROVE  Same
  <2>1. /\ wk' = wk /\ cand' = [cand EXCEPT ![job[2]] = PayloadsOf(job[2])]
        /\ ~Cleaned(job[2]) /\ job[1] = "CLEAN" /\ open \ {job} \subseteq open'
    BY <1>5 DEF CleanNew, QueueQuality, Cleaned
  <2>2. wk[w].job \in open /\ Cleaned(c) /\ c \in Sources /\ wk[w].job[1] = "QUALITY"
    BY <2>1, HeldBatch
  <2>3. cand'[c] = cand[c]
    BY <1>0, <2>1, <2>2 DEF Functions
  <2> QED BY <2>1, <2>2, <2>3
<1>6. ASSUME NEW job \in Jobs, CleanFails(job) \/ CleanAgain(job)
      PROVE  Same
  <2>1. /\ wk' = wk /\ cand' = cand
        /\ job[1] = "CLEAN" /\ open \ {job} \subseteq open'
    <3>1. CASE CleanFails(job)
      BY <3>1 DEF CleanFails, batchRows
    <3>2. CASE CleanAgain(job)
      BY <3>2 DEF CleanAgain, QueueQuality, batchRows
    <3> QED BY <1>6, <3>1, <3>2
  <2>2. wk[w].job \in open /\ wk[w].job[1] = "QUALITY"
    BY <2>1, HeldBatch
  <2> QED BY <2>1, <2>2
<1>7. ASSUME NEW job \in Jobs, JudgeFails(job)
      PROVE  Same
  <2>1. wk' = wk /\ cand' = cand /\ open' = open \ {job} /\ wk[w].job[2] # job[2]
    BY <1>7 DEF JudgeFails, BatchFree, batchRows
  <2>2. wk[w].job \in open
    BY <2>1, HeldBatch
  <2>3. wk[w].job # job
    BY <2>1
  <2> QED BY <2>1, <2>2, <2>3
<1>8. ASSUME wk' = wk, cand' = cand, open \subseteq open'
      PROVE  Same
  BY <1>8, HeldBatch
<1>9. ASSUME Deploy
      PROVE  FALSE
  BY <1>9 DEF Deploy, Idle
<1>10. ASSUME NEW d \in Sources, NEW rows \in Answers[d], Collect(d, rows)
       PROVE  Same
  BY <1>8, <1>10 DEF Collect
<1>11. ASSUME NEW d \in Sources, CleanLatest(d)
       PROVE  Same
  BY <1>8, <1>11 DEF CleanLatest, batchRows
<1> HIDE DEF Same
<1>12. Same \/ \E job \in Jobs : Judge(w, job)
  BY <1>1, <1>2, <1>3, <1>4, <1>5, <1>6, <1>7, <1>9, <1>10, <1>11, StepCases
<1> QED BY <1>12 DEF Same

LEMMA WorkerHasBatchStep ==
  ASSUME Inv, Next
  PROVE  WorkerHasBatch' /\ \A w \in Workers : wk'[w].job # NoJob => wk'[w].job \in open'
<1>0. TypeOK /\ Functions /\ WorkerHasBatch
  BY DEF Inv
<1>1. ASSUME NEW w \in Workers, NEW job \in Jobs, Judge(w, job)
      PROVE  /\ wk'[w].job = job /\ job \in open' /\ job[1] = "QUALITY"
             /\ wk'[w].changed \subseteq cand'[job[2]] /\ wk'[w].seen \subseteq approved'
             /\ \A v \in Workers : v # w => wk'[v] = wk[v] /\ wk[v].job[2] # job[2]
  BY <1>0, <1>1 DEF Judge, ChangedRows, BatchFree, Functions, batchRows
<1>2. approved \subseteq approved'
  BY ApprovedStep
<1>3. ASSUME NEW w \in Workers, wk'[w].job # NoJob
      PROVE  /\ wk'[w].job \in open' /\ wk'[w].job[1] = "QUALITY"
             /\ wk'[w].changed \subseteq cand'[wk'[w].job[2]]
             /\ wk'[w].seen \subseteq approved'
  BY <1>1, <1>2, <1>3, WorkerStep, HeldBatch
<1>4. ASSUME NEW v \in Workers, NEW w \in Workers, v # w, wk'[w].job # NoJob
      PROVE  wk'[v].job[2] # wk'[w].job[2]
  <2>1. CASE \E job \in Jobs : Judge(w, job)
    <3>1. PICK job \in Jobs : Judge(w, job)
      BY <2>1
    <3> QED BY <1>1, <1>4, <3>1
  <2>2. CASE wk'[w] = wk[w] /\ \A job \in Jobs : ~Judge(w, job)
    <3>1. wk[w].job # NoJob /\ wk[w].job[2] # 0 /\ wk[v].job[2] # wk[w].job[2]
      BY <1>0, <1>4, <2>2, HeldBatch, PublicationConstants DEF WorkerHasBatch
    <3>2. CASE wk'[v].job = NoJob
      BY <2>2, <3>1, <3>2 DEF NoJob
    <3>3. CASE wk'[v].job # NoJob /\ wk'[v] = wk[v]
      BY <2>2, <3>1, <3>3
    <3>4. CASE \E job \in Jobs : Judge(v, job)
      <4>1. PICK job \in Jobs : Judge(v, job)
        BY <3>4
      <4>2. wk'[v].job = job /\ wk[w].job[2] # job[2]
        BY <1>1, <1>4, <4>1
      <4> QED BY <2>2, <4>2
    <3> QED BY <3>2, <3>3, <3>4, WorkerStep
  <2> QED BY <1>4, <2>1, <2>2, WorkerStep
<1> QED BY <1>3, <1>4 DEF WorkerHasBatch

\* A row of an approved batch has been in its table since the batch was published.
LEMMA OldRow ==
  ASSUME Inv, Next, NEW i \in Items, NEW t \in table'[i], t.from \in approved
  PROVE  t \in table[i]
<1>1. ASSUME NEW w \in Workers, Writes(w, i, t)
      PROVE  FALSE
  <2>1. wk[w].job # NoJob /\ t.from = wk[w].job[2] /\ t.pay \in wk[w].changed
    BY <1>1 DEF Writes, Publish
  <2>2. wk[w].changed \subseteq cand[t.from]
    BY <2>1, HeldBatch
  <2>3. cand[t.from] = {}
    BY DEF Inv, Batches
  <2> QED BY <2>1, <2>2, <2>3
<1> QED BY <1>1, TableStep

\* What a row that is written comes from.
LEMMA NewRow ==
  ASSUME Inv, Next, NEW i \in Items, NEW w \in Workers, NEW t, Writes(w, i, t)
  PROVE  /\ wk[w].job # NoJob /\ JudgedWell(wk[w].job[2], wk[w].changed, wk[w].seen)
         /\ t.from = wk[w].job[2] /\ t.from \in Sources /\ ItemOf[t.from] = i
         /\ t.pay \in wk[w].changed /\ t.pay \in cand[t.from]
         /\ t.from \in approved' /\ seen' = [seen EXCEPT ![t.from] = wk[w].seen]
<1>1. Publish(w) /\ t.from = wk[w].job[2] /\ t.pay \in wk[w].changed /\ ItemOf[t.from] = i
  BY DEF Writes
<1>2. /\ wk[w].job # NoJob /\ ~wk[w].blocked
      /\ approved' = approved \cup {wk[w].job[2]}
      /\ seen' = [seen EXCEPT ![wk[w].job[2]] = wk[w].seen]
  BY <1>1 DEF Publish
<1>3. wk[w].job[2] \in Sources /\ wk[w].changed \subseteq cand[wk[w].job[2]]
  BY <1>2, HeldBatch
<1>4. JudgedWell(wk[w].job[2], wk[w].changed, wk[w].seen)
  BY <1>2 DEF Inv, Judged
<1> QED BY <1>1, <1>2, <1>3, <1>4

LEMMA TableTypeStep ==
  ASSUME Inv, Next
  PROVE  /\ approved' \subseteq Sources
         /\ \A i \in Items : \A t \in table'[i] :
              t.from \in approved' /\ ItemOf[t.from] = i /\ t.pay \in FormalRow[i]
         /\ \A i \in Items : \A t, u \in table'[i] :
              KeyOf(i, t.pay) = KeyOf(i, u.pay) => t = u
<1>0. TypeOK /\ Functions /\ Candidates
  BY DEF Inv
<1>1. approved' \subseteq Sources /\ approved \subseteq approved'
  BY <1>0, ApprovedStep, HeldBatch DEF TypeOK, Publish
<1>2. ASSUME NEW i \in Items, NEW t \in table'[i]
      PROVE  t.from \in approved' /\ ItemOf[t.from] = i /\ t.pay \in FormalRow[i]
  <2>1. ASSUME NEW w \in Workers, Writes(w, i, t)
        PROVE  t.from \in approved' /\ ItemOf[t.from] = i /\ t.pay \in FormalRow[i]
    BY <1>0, <2>1, NewRow DEF TypeOK
  <2> QED BY <1>0, <1>1, <2>1, TableStep DEF TypeOK
<1>3. ASSUME NEW i \in Items, NEW t \in table'[i], NEW u \in table'[i],
             KeyOf(i, t.pay) = KeyOf(i, u.pay)
      PROVE  t = u
  <2>1. CASE table'[i] = table[i]
    BY <1>0, <1>3, <2>1 DEF TypeOK
  <2>2. CASE table'[i] # table[i]
    <3>1. PICK w \in Workers : Publish(w) /\ ItemOf[wk[w].job[2]] = i
      <4>1. ASSUME NEW w \in Workers, Publish(w), ItemOf[wk[w].job[2]] # i
            PROVE  table'[i] = table[i]
        BY <1>0, <4>1 DEF Publish, Functions
      <4> QED
        BY <2>2, <4>1, StepCases
           DEF Collect, CleanNew, CleanFails, CleanAgain, JudgeFails, Judge, Block,
               Deploy, CleanLatest, batchRows
    <3> DEFINE c == wk[w].job[2]
               rows == wk[w].changed
    <3>2. c \in Sources /\ rows \subseteq cand[c]
      BY <3>1, HeldBatch DEF Publish
    <3>3. table'[i] = Upserted(i, rows, c)
      BY <1>0, <3>1 DEF Publish, Functions
    <3>4. \A p, q \in rows : KeyOf(i, p) = KeyOf(i, q) => p = q
      BY <1>0, <3>1, <3>2 DEF Candidates
    <3>5. \A v, x \in table[i] : KeyOf(i, v.pay) = KeyOf(i, x.pay) => v = x
      BY <1>0 DEF TypeOK
    <3> HIDE DEF c, rows
    <3>6. t \in Upserted(i, rows, c) /\ u \in Upserted(i, rows, c)
      BY <3>3
    <3> QED BY <1>3, <3>4, <3>5, <3>6, UpsertKeysUnique
  <2> QED BY <2>1, <2>2
<1> QED BY <1>1, <1>2, <1>3

LEMMA KnownStep ==
  ASSUME Inv, Next
  PROVE  KnownSecurities'
<1> SUFFICES ASSUME NEW i \in Watched, NEW t \in table'[i]
             PROVE  t.pay.code \in KnownCodes'
  BY DEF KnownSecurities, Watched, Minute
<1>0. i \in Items
  BY DEF Watched, Minute, Items, TradeDateItems
<1>1. CASE t \in table[i]
  BY <1>1, KnownGrows DEF Inv, KnownSecurities, Watched, Minute
<1>2. ASSUME NEW w \in Workers, Writes(w, i, t)
      PROVE  t.pay.code \in KnownCodes
  <2>1. /\ JudgedWell(wk[w].job[2], wk[w].changed, wk[w].seen) /\ t.from = wk[w].job[2] /\ ItemOf[t.from] = i
        /\ t.pay \in cand[t.from]
    BY <1>0, <1>2, NewRow
  <2> QED BY <2>1 DEF JudgedWell
<1> QED BY <1>0, <1>1, <1>2, KnownGrows, TableStep

LEMMA NoChoiceStep ==
  ASSUME Inv, Next
  PROVE  NoSilentChoice'
<1> SUFFICES ASSUME NEW c \in approved'
             PROVE  OneAnswer(c)'
  BY DEF NoSilentChoice, OneAnswer
<1>1. CASE c \in approved
  <2>1. c \in Sources /\ Cleaned(c) /\ OneAnswer(c)
    BY <1>1 DEF Inv, TypeOK, Batches, NoSilentChoice, OneAnswer
  <2>2. raw'[c] = raw[c]
    BY <2>1, BatchStays
  <2> QED BY <2>1, <2>2 DEF OneAnswer
<1>2. ASSUME NEW w \in Workers, Publish(w), c = wk[w].job[2]
      PROVE  OneAnswer(c)'
  <2>1. OneAnswer(c) /\ raw' = raw
    BY <1>2 DEF Publish, Inv, Judged, JudgedWell
  <2> QED BY <2>1 DEF OneAnswer
<1> QED BY <1>1, <1>2, ApprovedStep

LEMMA RowsCountedStep ==
  ASSUME Inv, Next
  PROVE  RowsCounted'
<1> SUFFICES ASSUME NEW i \in Items, NEW t \in table'[i]
             PROVE  count'[t.from].accepted # 0
  BY DEF RowsCounted
<1>1. CASE t \in table[i]
  <2>1. t.from \in Sources /\ Cleaned(t.from) /\ count[t.from].accepted # 0
    BY <1>1 DEF Inv, TypeOK, Batches, RowsCounted
  <2> QED BY <2>1, BatchStays
<1>2. ASSUME NEW w \in Workers, Writes(w, i, t)
      PROVE  count'[t.from].accepted # 0
  <2>1. t.from \in Sources /\ t.pay \in cand[t.from] /\ t.from = wk[w].job[2]
        /\ wk[w].job # NoJob
    BY <1>2, NewRow
  <2>2. Cleaned(t.from)
    BY <2>1, HeldBatch
  <2>3. count[t.from].accepted # 0
    BY <2>1 DEF Inv, CountsAddUp
  <2> QED BY <2>1, <2>2, <2>3, BatchStays
<1> QED BY <1>1, <1>2, TableStep

LEMMA ConflictsStep ==
  ASSUME Inv, Next
  PROVE  ConflictsAreLater'
<1>0. TypeOK /\ ConflictsAreLater
  BY DEF Inv
<1> SUFFICES ASSUME NEW i \in Items, NEW j \in Items,
                    NEW t \in table'[i], NEW d \in table'[j],
                    OnScopeDay(t), Contradicts(t, d), d.from \in seen'[t.from]
             PROVE  FALSE
  BY DEF ConflictsAreLater, OnScopeDay, Contradicts
<1>1. CASE t \in table[i] /\ seen'[t.from] = seen[t.from]
  <2>1. t.from \in Sources /\ d.from \in approved
    BY <1>0, <1>1 DEF TypeOK, Inv, Batches
  <2>2. d \in table[j]
    BY <2>1, OldRow
  <2> QED BY <1>0, <1>1, <2>2 DEF ConflictsAreLater
<1>2. ASSUME NEW w \in Workers, Publish(w), t \in table[i], seen'[t.from] # seen[t.from]
      PROVE  FALSE
  <2> DEFINE c == wk[w].job[2]
  <2>1. t.from \in Sources /\ t.from \in approved /\ count[t.from].accepted # 0
    BY <1>0, <1>2 DEF TypeOK, Inv, RowsCounted
  <2>2. t.from = c
    BY <1>0, <1>2, <2>1 DEF Publish, TypeOK
  <2>3. cand[c] = {} /\ count[c].accepted = Cardinality(cand[c])
    BY <1>2, <2>1, <2>2 DEF Publish, Inv, Batches, Judged, JudgedWell
  <2> QED BY <2>1, <2>2, <2>3, FS_EmptySet
<1>3. ASSUME NEW w \in Workers, Writes(w, i, t)
      PROVE  FALSE
  <2>1. /\ wk[w].job # NoJob /\ JudgedWell(wk[w].job[2], wk[w].changed, wk[w].seen) /\ t.from = wk[w].job[2]
        /\ t.from \in Sources /\ t.pay \in wk[w].changed
        /\ seen' = [seen EXCEPT ![t.from] = wk[w].seen]
    BY <1>3, NewRow
  <2>2. seen'[t.from] = wk[w].seen /\ wk[w].seen \subseteq approved
    BY <1>0, <2>1, HeldBatch DEF TypeOK
  <2>3. d \in table[j] /\ d.from \in wk[w].seen
    BY <2>2, OldRow
  <2> DEFINE u == [pay |-> t.pay, from |-> wk[w].job[2]]
  <2>4. u.pay = t.pay /\ u.from = t.from
    BY <2>1
  <2>5. OnScopeDay(u) => ~Contradicts(u, d)
    BY <2>1, <2>3 DEF JudgedWell, Agrees
  <2>6. OnScopeDay(u) /\ Contradicts(u, d)
    BY <2>4 DEF OnScopeDay, Contradicts
  <2> QED BY <2>5, <2>6
<1>4. ASSUME ~ \E w \in Workers : Publish(w)
      PROVE  seen' = seen
  BY <1>4, StepCases
     DEF Collect, CleanNew, CleanFails, CleanAgain, JudgeFails, Judge, Block,
         Deploy, CleanLatest, batchRows
<1> QED BY <1>1, <1>2, <1>3, <1>4, TableStep

LEMMA MinuteRowsStep ==
  ASSUME Inv, Next
  PROVE  MinutesAreFormal' /\ MinuteDayComplete'
<1>0. TypeOK /\ MinutesAreFormal /\ MinuteDayComplete /\ Minute \in Items
  BY DEF Inv, Minute, Items
<1>1. ASSUME NEW w \in Workers, NEW t \in table'[Minute], Writes(w, Minute, t)
      PROVE  LET c == wk[w].job[2]
             IN  /\ c \in Sources /\ ItemOf[c] = Minute
                 /\ t.pay \in cand[c] /\ t.pay.freq = FormalFrequency
                 /\ t.pay.code = ScopeOf[c].code
                 /\ t.pay.time \in Grid(ScopeOf[c].day)
                 /\ FillsDay(c, wk[w].changed)
  <2>1. /\ JudgedWell(wk[w].job[2], wk[w].changed, wk[w].seen) /\ t.from = wk[w].job[2]
        /\ t.from \in Sources /\ ItemOf[t.from] = Minute /\ t.pay \in cand[t.from]
    BY <1>0, <1>1, NewRow
  <2>2. t.pay.code = ScopeOf[t.from].code /\ t.pay.freq = FormalFrequency
    BY <2>1 DEF Inv, Candidates
  <2>3. FillsDay(t.from, wk[w].changed)
    BY <2>1 DEF JudgedWell
  <2>4. t.pay.time \in Grid(ScopeOf[t.from].day)
    BY <2>1, <2>3 DEF FillsDay, Times, MinuteDay
  <2> QED BY <2>1, <2>2, <2>3, <2>4
<1>2. MinutesAreFormal'
  BY <1>0, <1>1, TableStep DEF MinutesAreFormal
\* A key of the table stays, and a minute row is its key.
<1>3. ASSUME NEW t \in table[Minute]
      PROVE  \E u \in table'[Minute] : u.pay.code = t.pay.code /\ u.pay.time = t.pay.time
  <2>1. PICK u \in table'[Minute] : KeyOf(Minute, u.pay) = KeyOf(Minute, t.pay)
    BY <1>0, TableStep
  <2> QED BY <2>1 DEF KeyOf, Minute
<1>4. ASSUME NEW day, NEW g \in Grid(day)
      PROVE  g[1] = day
  BY <1>4 DEF Grid
<1> DEFINE Mine(t)  == {u.pay.time : u \in {v \in table[Minute] :
                          v.pay.code = t.pay.code /\ v.pay.time[1] = t.pay.time[1]}}
           MineP(t) == {u.pay.time : u \in {v \in table'[Minute] :
                          v.pay.code = t.pay.code /\ v.pay.time[1] = t.pay.time[1]}}
<1>5. \A t \in table[Minute] : Mine(t) = Grid(t.pay.time[1])
  BY <1>0 DEF MinuteDayComplete, Minute
<1>6. ASSUME NEW t \in table'[Minute]
      PROVE  t.pay.time \in Grid(t.pay.time[1])
  <2>1. CASE t \in table[Minute]
    <3>1. t.pay.time \in Mine(t)
      BY <2>1
    <3> QED BY <1>5, <2>1, <3>1
  <2>2. ASSUME NEW w \in Workers, Writes(w, Minute, t)
        PROVE  t.pay.time \in Grid(t.pay.time[1])
    <3>1. t.pay.time \in Grid(ScopeOf[wk[w].job[2]].day)
      BY <1>1, <2>2
    <3>2. t.pay.time[1] = ScopeOf[wk[w].job[2]].day
      BY <1>4, <3>1
    <3> QED BY <3>1, <3>2
  <2> QED BY <1>0, <2>1, <2>2, TableStep
<1>7. ASSUME NEW t \in table'[Minute], NEW g \in Grid(t.pay.time[1])
      PROVE  \E u \in table'[Minute] : u.pay.code = t.pay.code /\ u.pay.time = g
  <2>1. CASE t \in table[Minute]
    <3>1. g \in Mine(t)
      BY <1>5, <2>1
    <3>2. PICK v \in table[Minute] : v.pay.code = t.pay.code /\ v.pay.time = g
      BY <3>1
    <3> QED BY <1>3, <3>2
  <2>2. ASSUME NEW w \in Workers, Writes(w, Minute, t)
        PROVE  \E u \in table'[Minute] : u.pay.code = t.pay.code /\ u.pay.time = g
    <3> DEFINE c == wk[w].job[2]
    <3>1. /\ c \in Sources /\ ItemOf[c] = Minute /\ t.pay.code = ScopeOf[c].code
          /\ t.pay.time \in Grid(ScopeOf[c].day) /\ FillsDay(c, wk[w].changed)
      BY <1>1, <2>2
    <3>2. g \in Times(c)
      <4>1. t.pay.time[1] = ScopeOf[c].day
        BY <1>4, <3>1
      <4> QED BY <3>1, <4>1 DEF FillsDay, MinuteDay
    <3>3. PICK p \in cand[c] : p.time = g
      BY <3>2 DEF Times
    <3>4. p.code = ScopeOf[c].code
      BY <3>1 DEF Inv, Candidates
    <3>5. CASE p \in wk[w].changed
      <4>1. [pay |-> p, from |-> c] \in Upserted(Minute, wk[w].changed, c)
        BY <3>5 DEF Upserted
      <4>2. table'[Minute] = Upserted(Minute, wk[w].changed, c)
        BY <1>0, <2>2 DEF Writes, Publish, Inv, Functions
      <4> QED BY <3>1, <3>3, <3>4, <4>1, <4>2
    <3>6. CASE HasKey(p)
      <4>1. PICK v \in table[Minute] : KeyOf(Minute, v.pay) = KeyOf(Minute, p)
        BY <3>6 DEF HasKey
      <4>2. v.pay.code = p.code /\ v.pay.time = p.time
        BY <4>1 DEF KeyOf, Minute
      <4> QED BY <1>3, <3>1, <3>3, <3>4, <4>2
    <3> QED BY <3>1, <3>5, <3>6 DEF FillsDay
  <2> QED BY <1>0, <2>1, <2>2, TableStep
<1>8. ASSUME NEW t \in table'[Minute]
      PROVE  MineP(t) = Grid(t.pay.time[1])
  <2>1. ASSUME NEW u \in table'[Minute], u.pay.time[1] = t.pay.time[1]
        PROVE  u.pay.time \in Grid(t.pay.time[1])
    BY <1>6, <2>1
  <2>2. ASSUME NEW g \in Grid(t.pay.time[1])
        PROVE  g \in MineP(t)
    <3>1. PICK u \in table'[Minute] : u.pay.code = t.pay.code /\ u.pay.time = g
      BY <1>7
    <3>2. u.pay.time[1] = t.pay.time[1]
      BY <1>4, <3>1
    <3> QED BY <3>1, <3>2
  <2>3. MineP(t) \subseteq Grid(t.pay.time[1])
    BY <2>1
  <2> QED BY <2>2, <2>3
<1>9. MinuteDayComplete'
  BY <1>8 DEF MinuteDayComplete, Minute
<1> QED BY <1>2, <1>9

-----------------------------------------------------------------------------
(***************************************************************************)
(* The rules: what a judgement that blocks nothing has found.              *)
(***************************************************************************)
LEMMA NotBlocked ==
  ASSUME NEW c \in Sources, ~Blocks(c), ItemOf[c] \in Items
  PROVE  /\ ~CountRules(c)
         /\ ItemOf[c] = "stock_daily" => ~DailyRules(c)
         /\ ItemOf[c] = "stock_adj_factor" => ~FactorRules(c)
         /\ ItemOf[c] = "stock_daily_basic" => ~DailyBasicRules(c)
         /\ ItemOf[c] = "stock_suspend" => ~SuspendRules(c)
         /\ ItemOf[c] = "stock_limit_price" => ~LimitRules(c)
         /\ ItemOf[c] = "stock_minute" => ~MinuteRules(c)
BY DEF Blocks, Items

LEMMA JudgedOneAnswer ==
  ASSUME Inv, NEW c \in Sources, Cleaned(c), ~CountRules(c)
  PROVE  OneAnswer(c) /\ count[c].accepted = Cardinality(cand[c])
<1>1. /\ count[c].accepted = Cardinality(cand[c])
      /\ Sum(c) = Cardinality(raw[c])
  BY DEF CountRules, Unaccounted, Sum
<1>2. Sum(c) = Cardinality(LatestByKey(ItemOf[c], raw[c]))
  BY DEF Inv, CountsAddUp
<1>3. /\ IsFiniteSet(raw[c]) /\ \A m, n \in raw[c] : m.at = n.at => m = n
      /\ \A n \in raw[c] : n.at \in Nat
  BY DEF Inv, RawRows, TypeOK
<1> QED BY <1>1, <1>2, <1>3, LatestOfAll DEF OneAnswer

LEMMA JudgedKnown ==
  ASSUME Inv, NEW c \in Sources, ~Blocks(c), ItemOf[c] \in Watched, NEW p \in cand[c]
  PROVE  p.code \in KnownCodes
<1>0. ItemOf[c] \in Items
  BY PublicationConstants
<1>1. CASE ItemOf[c] \in {"stock_daily", "stock_adj_factor", "stock_daily_basic", "stock_suspend"}
  <2>1. ~UnknownCode(c)
    BY <1>0, <1>1, NotBlocked DEF DailyRules, FactorRules, DailyBasicRules, SuspendRules
  <2> QED BY <2>1 DEF UnknownCode
<1>2. CASE ItemOf[c] = "stock_limit_price"
  BY <1>2 DEF Inv, Candidates
<1>3. CASE ItemOf[c] = Minute
  <2>1. ScopeOf[c].code \in KnownCodes
    BY <1>0, <1>3, NotBlocked DEF MinuteRules, Minute
  <2>2. p.code = ScopeOf[c].code
    BY <1>3 DEF Inv, Candidates
  <2> QED BY <2>1, <2>2
<1> QED BY <1>1, <1>2, <1>3 DEF Watched, TradeDateItems

LEMMA JudgedFillsDay ==
  ASSUME Inv, NEW c \in Sources, ~Blocks(c)
  PROVE  FillsDay(c, ChangedRows(c))
<1> SUFFICES ASSUME ItemOf[c] = Minute
             PROVE  /\ Times(c) = MinuteDay(c)
                    /\ \A p \in cand[c] : p \in ChangedRows(c) \/ HasKey(p)
  BY DEF FillsDay
<1>1. ItemOf[c] \in Items
  BY PublicationConstants
<1>2. Times(c) = MinuteDay(c)
  BY <1>1, NotBlocked DEF MinuteRules, NotTheGrid, Minute
<1>3. ASSUME NEW p \in cand[c], p \notin ChangedRows(c)
      PROVE  HasKey(p)
  <2>1. PICK t \in table[Minute] : t.pay = p
    BY <1>3 DEF ChangedRows
  <2> QED BY <2>1 DEF HasKey
<1> QED BY <1>2, <1>3

LEMMA JudgedAgrees ==
  ASSUME Inv, NEW c \in Sources, ~Blocks(c), NEW known
  PROVE  Agrees(c, ChangedRows(c), known)
<1> SUFFICES ASSUME NEW p \in cand[c], NEW j \in Items, NEW d \in table[j],
                    OnScopeDay([pay |-> p, from |-> c]),
                    Contradicts([pay |-> p, from |-> c], d)
             PROVE  FALSE
  BY DEF Agrees, ChangedRows
<1>0. ItemOf[c] \in Items /\ ItemOf[d.from] = j
  BY PublicationConstants DEF Inv, TypeOK
<1> DEFINE t == [pay |-> p, from |-> c]
<1>1. t.pay = p /\ t.from = c
  OBVIOUS
<1>2. ItemOf[c] \in TradeDateItems => p.day = ScopeOf[c].day
  BY <1>1 DEF OnScopeDay
<1>3. \/ /\ ItemOf[c] = "stock_daily_basic" /\ j = "stock_daily"
         /\ p.code = d.pay.code /\ p.day = d.pay.day /\ p.close # d.pay.close
      \/ /\ ItemOf[c] = "stock_limit_price" /\ j = "stock_daily"
         /\ p.code = d.pay.code /\ p.day = d.pay.day /\ OutsideLimit(p, d.pay)
      \/ /\ ItemOf[c] \in TradeDateItems \ {"stock_suspend"}
         /\ j = "trade_calendar" /\ d.pay.exch = "SSE"
         /\ p.day = d.pay.day /\ ~d.pay.open
  BY <1>0, <1>1 DEF Contradicts
<1>4. CASE j = "stock_daily" /\ ItemOf[c] \in {"stock_daily_basic", "stock_limit_price"}
  <2>1. d.pay \in DailyRows(p.code, ScopeOf[c].day)
    BY <1>2, <1>3, <1>4 DEF DailyRows, TradeDateItems
  <2>2. CASE ItemOf[c] = "stock_daily_basic"
    <3>1. ~CloseMismatch(c)
      BY <1>0, <2>2, NotBlocked DEF DailyBasicRules
    <3> QED BY <1>3, <1>4, <2>1, <2>2, <3>1 DEF CloseMismatch
  <2>3. CASE ItemOf[c] = "stock_limit_price"
    <3>1. ~DailyOutsideLimit(c)
      BY <1>0, <2>3, NotBlocked DEF LimitRules
    <3> QED BY <1>3, <1>4, <2>1, <2>3, <3>1 DEF DailyOutsideLimit
  <2> QED BY <1>4, <2>2, <2>3
<1>5. CASE j = "trade_calendar" /\ ItemOf[c] \in TradeDateItems \ {"stock_suspend"}
  <2>1. ~ClosedDay(c)
    BY <1>0, <1>5, NotBlocked
       DEF DailyRules, FactorRules, DailyBasicRules, LimitRules, TradeDateItems
  <2>2. PICK e \in table["trade_calendar"] :
          e.pay.exch = "SSE" /\ e.pay.day = ScopeOf[c].day /\ e.pay.open
    BY <2>1 DEF ClosedDay, IsOpenDay
  <2>3. d.pay.exch = "SSE" /\ d.pay.day = ScopeOf[c].day /\ ~d.pay.open
    BY <1>2, <1>3, <1>5
  <2>4. KeyOf("trade_calendar", e.pay) = KeyOf("trade_calendar", d.pay)
    BY <2>2, <2>3 DEF KeyOf
  <2>5. e = d
    BY <1>5, <2>4 DEF Inv, TypeOK
  <2> QED BY <2>2, <2>3, <2>5
<1> QED BY <1>3, <1>4, <1>5

\* What such a judgement has found, and what of it the other steps keep.
LEMMA JudgedFresh ==
  ASSUME Inv, NEW c \in Sources, Cleaned(c), ~Blocks(c), NEW known
  PROVE  JudgedWell(c, ChangedRows(c), known)
<1>1. ~CountRules(c)
  BY DEF Blocks
<1> QED
  BY <1>1, JudgedOneAnswer, JudgedKnown, JudgedFillsDay, JudgedAgrees DEF JudgedWell

LEMMA JudgedStays ==
  ASSUME Inv, Next, NEW c \in Sources, Cleaned(c), cand'[c] = cand[c],
         NEW rows, NEW known, known \subseteq approved, JudgedWell(c, rows, known)
  PROVE  JudgedWell(c, rows, known)'
<1>1. raw'[c] = raw[c] /\ count'[c] = count[c]
  BY BatchStays
<1>2. OneAnswer(c)' /\ count'[c].accepted = Cardinality(cand'[c])
  BY <1>1 DEF JudgedWell, OneAnswer
<1>3. ItemOf[c] \in Watched => \A p \in cand'[c] : p.code \in KnownCodes'
  BY KnownGrows DEF JudgedWell
<1>4. FillsDay(c, rows)'
  <2>1. ASSUME NEW p, HasKey(p)
        PROVE  HasKey(p)'
    <3>1. Minute \in Items
      BY DEF Minute, Items
    <3>2. PICK t \in table[Minute] : KeyOf(Minute, t.pay) = KeyOf(Minute, p)
      BY <2>1 DEF HasKey
    <3> QED BY <3>1, <3>2, TableStep DEF HasKey
  <2> QED BY <2>1 DEF JudgedWell, FillsDay, Times, MinuteDay
<1>5. Agrees(c, rows, known)'
  <2> SUFFICES ASSUME NEW p \in rows, NEW j \in Items, NEW d \in table'[j],
                      d.from \in known, OnScopeDay([pay |-> p, from |-> c]),
                      Contradicts([pay |-> p, from |-> c], d)
               PROVE  FALSE
    BY DEF Agrees, OnScopeDay, Contradicts
  <2>1. d \in table[j]
    BY OldRow
  <2> QED BY <2>1 DEF JudgedWell, Agrees
<1> QED BY <1>2, <1>3, <1>4, <1>5 DEF JudgedWell

LEMMA JudgedStep ==
  ASSUME Inv, Next
  PROVE  Judged'
<1>0. Functions
  BY DEF Inv
<1> SUFFICES ASSUME NEW w \in Workers, wk'[w].job # NoJob, ~wk'[w].blocked,
                    NEW c, NEW rows, NEW known,
                    c = wk'[w].job[2], rows = wk'[w].changed, known = wk'[w].seen
             PROVE  JudgedWell(c, rows, known)'
  BY DEF Judged
<1>1. CASE wk'[w] = wk[w] /\ cand'[wk[w].job[2]] = cand[wk[w].job[2]]
  <2>1. /\ c \in Sources /\ Cleaned(c) /\ known \subseteq approved
        /\ cand'[c] = cand[c] /\ JudgedWell(c, rows, known)
    BY <1>1, HeldBatch DEF Inv, Judged
  <2> QED BY <2>1, JudgedStays
<1>2. ASSUME NEW job \in Jobs, Judge(w, job)
      PROVE  JudgedWell(c, rows, known)'
  <2>1. job[2] \in Sources /\ Cleaned(job[2])
    BY <1>2, JobSource DEF Judge, Inv, Batches, TypeOK
  <2>2. wk'[w] = [job |-> job, blocked |-> Blocks(job[2]), changed |-> ChangedRows(job[2]),
                  seen |-> approved]
    BY <1>0, <1>2 DEF Judge, Functions
  <2>3. c = job[2] /\ rows = ChangedRows(c) /\ known = approved /\ ~Blocks(c)
    BY <2>2
  <2>4. JudgedWell(c, rows, known)
    BY <2>1, <2>3, JudgedFresh
  <2>5. cand' = cand
    BY <1>2 DEF Judge, batchRows
  <2> QED BY <2>1, <2>3, <2>4, <2>5, JudgedStays
<1> QED BY <1>1, <1>2, WorkerStep

-----------------------------------------------------------------------------
(***************************************************************************)
(* The invariant, and the theorems.                                        *)
(***************************************************************************)
LEMMA RuledStep ==
  ASSUME Inv, Next
  PROVE  ruled' \in [Sources -> 0 .. MaxVersion] /\ seen' \in [Sources -> SUBSET Sources]
<1>0. /\ ruled \in [Sources -> 0 .. MaxVersion] /\ version \in 0 .. MaxVersion
      /\ seen \in [Sources -> SUBSET Sources] /\ approved \subseteq Sources
  BY PublicationConstants DEF Inv, TypeOK
<1>1. ASSUME NEW w \in Workers, Block(w)
      PROVE  ruled' \in [Sources -> 0 .. MaxVersion] /\ seen' = seen
  BY <1>0, <1>1 DEF Block
<1>2. ASSUME NEW w \in Workers, Publish(w)
      PROVE  ruled' \in [Sources -> 0 .. MaxVersion] /\ seen' \in [Sources -> SUBSET Sources]
  <2>1. wk[w].seen \subseteq Sources
    BY <1>0, <1>2, HeldBatch DEF Publish
  <2> QED BY <1>0, <1>2, <2>1 DEF Publish
<1>3. ASSUME NEW job \in Jobs, CleanNew(job)
      PROVE  ruled' \in [Sources -> 0 .. MaxVersion] /\ seen' = seen
  BY <1>0, <1>3 DEF CleanNew
<1>4. \/ ruled' = ruled /\ seen' = seen
      \/ \E job \in Jobs : CleanNew(job)
      \/ \E w \in Workers : Block(w) \/ Publish(w)
  BY StepCases
     DEF Collect, CleanFails, CleanAgain, JudgeFails, Judge, Deploy,
         CleanLatest, batchRows
<1> QED BY <1>0, <1>1, <1>2, <1>3, <1>4

LEMMA InvInit == Init => Inv
<1> SUFFICES ASSUME Init
             PROVE  Inv
  OBVIOUS
<1>1. TypeOK
  BY PublicationConstants DEF Init, TypeOK, Stages, Counts, Idle, NoJob
<1>2. Functions
  BY DEF Init, Functions
<1>3. RawRows
  BY FS_EmptySet DEF Init, RawRows
<1>4. Candidates /\ CountsAddUp /\ Batches
  BY DEF Init, Candidates, CountsAddUp, Batches, Cleaned
<1>5. WorkerHasBatch /\ Judged
  BY DEF Init, WorkerHasBatch, Judged, Idle
<1>6. RowsCounted /\ MinutesAreFormal /\ KnownSecurities /\ MinuteDayComplete
  BY DEF Init, RowsCounted, MinutesAreFormal, KnownSecurities, MinuteDayComplete, Items,
         Minute, TradeDateItems
<1>7. NoSilentChoice /\ ConflictsAreLater
  BY DEF Init, NoSilentChoice, ConflictsAreLater
<1> QED BY <1>1, <1>2, <1>3, <1>4, <1>5, <1>6, <1>7 DEF Inv

LEMMA InvStep == Inv /\ [Next]_vars => Inv'
<1> SUFFICES ASSUME Inv, [Next]_vars
             PROVE  Inv'
  OBVIOUS
<1>1. CASE Next
  <2>1. TypeOK'
    <3>1. /\ stage' \in [Sources -> Stages] /\ version' \in 1 .. MaxVersion
          /\ open' \subseteq created' /\ created' \subseteq Jobs
      BY <1>1, BatchesStep
    <3>2. \A c \in Sources : raw'[c] \subseteq [at : Nat, row : RawRow[ItemOf[c]]]
      BY <1>1, RawStep
    <3>3. count' \in [Sources -> Counts]
      BY <1>1, CountsStep
    <3>4. /\ approved' \subseteq Sources
          /\ \A i \in Items : \A t \in table'[i] :
               t.from \in approved' /\ ItemOf[t.from] = i /\ t.pay \in FormalRow[i]
          /\ \A i \in Items : \A t, u \in table'[i] :
               KeyOf(i, t.pay) = KeyOf(i, u.pay) => t = u
      BY <1>1, TableTypeStep
    <3>5. \A w \in Workers : wk'[w].job # NoJob => wk'[w].job \in open'
      BY <1>1, WorkerHasBatchStep
    <3>6. ruled' \in [Sources -> 0 .. MaxVersion] /\ seen' \in [Sources -> SUBSET Sources]
      BY <1>1, RuledStep
    <3>7. \A c \in Sources : cand'[c] \subseteq FormalRow[ItemOf[c]]
      BY <1>1, CandidatesFitStep
    <3> QED BY <3>1, <3>2, <3>3, <3>4, <3>5, <3>6, <3>7 DEF TypeOK
  <2>2. Functions' /\ RawRows' /\ Candidates' /\ CountsAddUp' /\ Batches'
    BY <1>1, FunctionsStep, RawStep, CandidatesStep, CountsStep, BatchesStep
  <2>3. WorkerHasBatch' /\ Judged' /\ RowsCounted' /\ MinutesAreFormal'
    BY <1>1, WorkerHasBatchStep, JudgedStep, RowsCountedStep, MinuteRowsStep
  <2>4. KnownSecurities' /\ NoSilentChoice' /\ MinuteDayComplete' /\ ConflictsAreLater'
    BY <1>1, KnownStep, NoChoiceStep, MinuteRowsStep, ConflictsStep
  <2> QED BY <2>1, <2>2, <2>3, <2>4 DEF Inv
<1>2. CASE UNCHANGED vars
  <2> USE <1>2 DEF vars, batchRows
  <2>1. TypeOK' /\ Functions' /\ RawRows'
    BY DEF Inv, TypeOK, Functions, RawRows
  <2>2. KnownCodes' = KnownCodes /\ \A c : Cleaned(c)' = Cleaned(c)
    BY DEF KnownCodes, Cleaned
  <2>3. Candidates' /\ CountsAddUp' /\ Batches'
    BY <2>2 DEF Inv, Candidates, CountsAddUp, Sum, Batches
  <2>4. WorkerHasBatch' /\ Judged'
    BY <2>2 DEF Inv, WorkerHasBatch, Judged, JudgedWell, OneAnswer, FillsDay, Times,
                MinuteDay, HasKey, Agrees
  <2>5. RowsCounted' /\ MinutesAreFormal' /\ KnownSecurities' /\ NoSilentChoice'
        /\ MinuteDayComplete' /\ ConflictsAreLater'
    BY <2>2 DEF Inv, RowsCounted, MinutesAreFormal, KnownSecurities, NoSilentChoice,
                MinuteDayComplete, ConflictsAreLater
  <2> QED BY <2>1, <2>3, <2>4, <2>5 DEF Inv
<1> QED BY <1>1, <1>2

LEMMA InvAlways == Spec => []Inv
<1> QED BY InvInit, InvStep, PTL DEF Spec

\* The types: keys stay unique in every formal table, each of whose rows comes
\* from an approved batch of its item (_publish, _upsert_simple).
THEOREM TypesHold == Spec => []TypeOK
<1>1. Inv => TypeOK
  BY DEF Inv
<1> QED BY <1>1, InvAlways, PTL

\* Every published security is in security_master, whatever commits between
\* the look at the master and the upsert.
THEOREM SecuritiesAreKnown == Spec => []KnownSecurities
<1>1. Inv => KnownSecurities
  BY DEF Inv
<1> QED BY <1>1, InvAlways, PTL

\* No answer is chosen silently from two that the provider gave (QB-CLEAN-003).
THEOREM NothingIsChosenSilently == Spec => []NoSilentChoice
<1>1. Inv => NoSilentChoice
  BY DEF Inv
<1> QED BY <1>1, InvAlways, PTL

\* The published minutes of a day are the whole grid or none (QB-MIN-003, 012).
THEOREM MinuteDaysAreWhole == Spec => []MinuteDayComplete
<1>1. Inv => MinuteDayComplete
  BY DEF Inv
<1> QED BY <1>1, InvAlways, PTL

\* Contradictory rows are published only in the order that no rule can see.
THEOREM ConflictsComeLater == Spec => []ConflictsAreLater
<1>1. Inv => ConflictsAreLater
  BY DEF Inv
<1> QED BY <1>1, InvAlways, PTL

\* A published batch never writes again.
THEOREM PublishedOnce == Spec => WritesOnce
<1>1. Inv /\ [Next]_vars =>
        [\A c \in approved : \A i \in Items :
           {t \in table'[i] : t.from = c} \subseteq {t \in table[i] : t.from = c}]_vars
  <2> SUFFICES ASSUME Inv, Next, NEW c \in approved, NEW i \in Items,
                      NEW t \in table'[i], t.from = c
               PROVE  t \in table[i]
    OBVIOUS
  <2> QED BY OldRow
<1> QED BY <1>1, InvAlways, PTL DEF Spec, WritesOnce

-----------------------------------------------------------------------------
(***************************************************************************)
(* The formal tables and the raw ones: what is published was received, and *)
(* what was received of an approved batch is published.                    *)
(***************************************************************************)
Limit == "stock_limit_price"

\* Only price limits are normalised by what security_master knows.
LEMMA MasterIsForLimits ==
  ASSUME NEW item, item # Limit, NEW r, NEW k1, NEW k2
  PROVE  /\ Skips(item, r, k1) <=> Skips(item, r, k2)
         /\ Accepts(item, r, k1) <=> Accepts(item, r, k2)
BY DEF Skips, Accepts, Limit

\* And what was accepted once is accepted when more is known.
LEMMA AcceptsStays ==
  ASSUME NEW item, NEW r, NEW k1, NEW k2, k1 \subseteq k2, Accepts(item, r, k1)
  PROVE  Accepts(item, r, k2)
<1>1. CASE item # Limit
  BY <1>1, MasterIsForLimits
<1>2. CASE item = Limit
  BY <1>2 DEF Accepts, Skips, Limit
<1> QED BY <1>1, <1>2

\* A candidate is what normalisation made of a raw row of its batch.
CandidatesFromRaw ==
  \A c \in Sources :
    /\ ~Cleaned(c) => cand[c] = {}
    /\ \A p \in cand[c] : \E r \in raw[c] :
         Accepts(ItemOf[c], r.row, KnownCodes) /\ p = Payload(ItemOf[c], r.row)

\* What _normalize makes of a batch.
Rejections(c) ==
  Cardinality(LatestByKey(ItemOf[c], raw[c]))
    - Cardinality(NormalisedOf(c)) - Cardinality(SkippedOf(c))
BatchIsWhole ==
  \A c \in Sources : Cleaned(c) /\ ItemOf[c] # Limit =>
    /\ count[c].rejected = Rejections(c)
    /\ c \notin approved => cand[c] = PayloadsOf(c)

KeyInTable(i, p) == \E t \in table[i] : KeyOf(i, t.pay) = KeyOf(i, p)

\* What a run that found nothing to block will write, or has found written.
RunCovers(c, rows) ==
  /\ count[c].rejected = 0
  /\ \A p \in cand[c] : p \in rows \/ KeyInTable(ItemOf[c], p)
RunsCover ==
  \A w \in Workers : wk[w].job # NoJob /\ ~wk[w].blocked =>
    \A c \in {wk[w].job[2]}, rows \in {wk[w].changed} : RunCovers(c, rows)

MirrorInv == CandidatesFromRaw /\ BatchIsWhole /\ RunsCover /\ TablesMirrorRaw

LEMMA MirrorInit == Init => MirrorInv
BY DEF Init, MirrorInv, CandidatesFromRaw, BatchIsWhole, RunsCover, TablesMirrorRaw,
       RowsComeFromRaw, NothingDropped, Cleaned, Idle, Items

LEMMA CandidatesFromRawStep ==
  ASSUME Inv, CandidatesFromRaw, Next
  PROVE  CandidatesFromRaw'
<1>0. Functions
  BY DEF Inv
<1> SUFFICES ASSUME NEW c \in Sources
             PROVE  /\ ~Cleaned(c)' => cand'[c] = {}
                    /\ \A p \in cand'[c] : \E r \in raw'[c] :
                         Accepts(ItemOf[c], r.row, KnownCodes') /\ p = Payload(ItemOf[c], r.row)
  BY DEF CandidatesFromRaw
<1>1. ASSUME NEW job \in Jobs, CleanNew(job), job[2] = c
      PROVE  /\ Cleaned(c)'
             /\ \A p \in cand'[c] : \E r \in raw'[c] :
                  Accepts(ItemOf[c], r.row, KnownCodes') /\ p = Payload(ItemOf[c], r.row)
  <2>1. /\ stage'[c] = "CANDIDATE" /\ cand'[c] = PayloadsOf(c) /\ raw' = raw
    BY <1>0, <1>1 DEF CleanNew, Functions, Inv, TypeOK
  <2>2. ASSUME NEW p \in PayloadsOf(c)
        PROVE  \E r \in raw[c] : /\ Accepts(ItemOf[c], r.row, KnownCodes)
                                 /\ p = Payload(ItemOf[c], r.row)
    <3>1. PICK q \in NormalisedOf(c) : p = Payload(ItemOf[c], q)
      BY DEF PayloadsOf
    <3> QED BY <3>1 DEF NormalisedOf, Normalised, LatestByKey
  <2>3. \A q : Accepts(ItemOf[c], q, KnownCodes) => Accepts(ItemOf[c], q, KnownCodes')
    BY KnownGrows, AcceptsStays
  <2> QED BY <2>1, <2>2, <2>3 DEF Cleaned
<1>2. ASSUME \A job \in Jobs : ~(CleanNew(job) /\ job[2] = c)
      PROVE  cand'[c] = cand[c] \/ cand'[c] = {}
  <2>1. ASSUME NEW job \in Jobs, CleanNew(job)
        PROVE  cand'[c] = cand[c]
    BY <1>0, <1>2, <2>1 DEF CleanNew, Functions
  <2>2. ASSUME NEW w \in Workers, Publish(w)
        PROVE  cand'[c] = cand[c] \/ cand'[c] = {}
    BY <1>0, <2>2 DEF Publish, RemainingCandidates, Functions
  <2> QED
    BY <2>1, <2>2, StepCases
       DEF Collect, CleanFails, CleanAgain, JudgeFails, Judge, Block, Deploy,
           CleanLatest, batchRows
<1>3. CASE \A job \in Jobs : ~(CleanNew(job) /\ job[2] = c)
  <2>1. CASE Cleaned(c)
    <3>1. Cleaned(c)' /\ raw'[c] = raw[c]
      BY <2>1, BatchStays
    <3>2. \A q : Accepts(ItemOf[c], q, KnownCodes) => Accepts(ItemOf[c], q, KnownCodes')
      BY KnownGrows, AcceptsStays
    <3> QED BY <1>2, <1>3, <3>1, <3>2 DEF CandidatesFromRaw
  <2>2. CASE ~Cleaned(c)
    BY <1>2, <1>3, <2>2 DEF CandidatesFromRaw
  <2> QED BY <2>1, <2>2
<1> QED BY <1>1, <1>3

\* A batch is normalised to the same rows whenever it is looked at.
LEMMA NormalisedStays ==
  ASSUME NEW c \in Sources, ItemOf[c] # Limit, raw'[c] = raw[c]
  PROVE  /\ NormalisedOf(c)' = NormalisedOf(c) /\ SkippedOf(c)' = SkippedOf(c)
         /\ PayloadsOf(c)' = PayloadsOf(c) /\ Rejections(c)' = Rejections(c)
<1>1. \A r : /\ Skips(ItemOf[c], r, KnownCodes') <=> Skips(ItemOf[c], r, KnownCodes)
             /\ Accepts(ItemOf[c], r, KnownCodes') <=> Accepts(ItemOf[c], r, KnownCodes)
  BY MasterIsForLimits
<1>2. NormalisedOf(c)' = NormalisedOf(c) /\ SkippedOf(c)' = SkippedOf(c)
  BY <1>1 DEF NormalisedOf, SkippedOf, Normalised, SkippedRows
<1> QED BY <1>2 DEF PayloadsOf, Rejections

LEMMA BatchIsWholeStep ==
  ASSUME Inv, BatchIsWhole, Next
  PROVE  BatchIsWhole'
<1>0. Functions /\ TypeOK
  BY DEF Inv
<1> SUFFICES ASSUME NEW c \in Sources, Cleaned(c)', ItemOf[c] # Limit
             PROVE  /\ count'[c].rejected = Rejections(c)'
                    /\ c \notin approved' => cand'[c] = PayloadsOf(c)'
  BY DEF BatchIsWhole
<1>1. CASE ~Cleaned(c)
  <2>1. PICK job \in Jobs : CleanNew(job) /\ job[2] = c
    BY <1>1, NewlyCleaned
  <2>2. raw'[c] = raw[c] /\ cand'[c] = PayloadsOf(c) /\ count'[c].rejected = Rejections(c)
    BY <1>0, <2>1 DEF CleanNew, Functions, TypeOK, Rejections
  <2> QED BY <2>2, NormalisedStays
<1>2. CASE Cleaned(c)
  <2>1. raw'[c] = raw[c] /\ count'[c] = count[c] /\ (c \in approved => c \in approved')
    BY <1>2, BatchStays
  <2>2. ASSUME c \notin approved'
        PROVE  cand'[c] = cand[c]
    <3>1. ASSUME NEW job \in Jobs, CleanNew(job)
          PROVE  cand'[c] = cand[c]
      <4>1. job[2] # c /\ job[2] \in Sources
        BY <1>2, <3>1, JobSource DEF CleanNew, Cleaned
      <4> QED BY <1>0, <3>1, <4>1 DEF CleanNew, Functions
    <3>2. ASSUME NEW w \in Workers, Publish(w)
          PROVE  cand'[c] = cand[c]
      <4>1. wk[w].job[2] # c
        BY <2>2, <3>2 DEF Publish
      <4> QED BY <1>0, <3>2, <4>1 DEF Publish, RemainingCandidates, Functions
    <3> QED
      BY <3>1, <3>2, StepCases
         DEF Collect, CleanFails, CleanAgain, JudgeFails, Judge, Block, Deploy,
             CleanLatest, batchRows
  <2> QED BY <1>2, <2>1, <2>2, NormalisedStays DEF BatchIsWhole
<1> QED BY <1>1, <1>2

LEMMA KeysStayInTable ==
  ASSUME Inv, Next, NEW i \in Items, NEW p, KeyInTable(i, p)
  PROVE  KeyInTable(i, p)'
<1>1. PICK t \in table[i] : KeyOf(i, t.pay) = KeyOf(i, p)
  BY DEF KeyInTable
<1> QED BY <1>1, TableStep DEF KeyInTable

LEMMA RunsCoverStep ==
  ASSUME Inv, RunsCover, Next
  PROVE  RunsCover'
<1>0. Functions
  BY DEF Inv
<1> SUFFICES ASSUME NEW w \in Workers, wk'[w].job # NoJob, ~wk'[w].blocked,
                    NEW c, NEW rows, c = wk'[w].job[2], rows = wk'[w].changed
             PROVE  RunCovers(c, rows)'
  BY DEF RunsCover
<1>1. ASSUME c \in Sources, Cleaned(c), cand'[c] = cand[c], RunCovers(c, rows)
      PROVE  RunCovers(c, rows)'
  <2>1. count'[c] = count[c] /\ ItemOf[c] \in Items
    BY <1>1, BatchStays, PublicationConstants
  <2>2. \A p : KeyInTable(ItemOf[c], p) => KeyInTable(ItemOf[c], p)'
    BY <2>1, KeysStayInTable
  <2> QED BY <1>1, <2>1, <2>2 DEF RunCovers
<1>2. CASE wk'[w] = wk[w] /\ cand'[wk[w].job[2]] = cand[wk[w].job[2]]
  <2>1. c \in Sources /\ Cleaned(c) /\ RunCovers(c, rows)
    BY <1>2, HeldBatch DEF RunsCover
  <2> QED BY <1>1, <1>2, <2>1
<1>3. ASSUME NEW job \in Jobs, Judge(w, job)
      PROVE  RunCovers(c, rows)'
  <2>1. job[2] \in Sources /\ Cleaned(job[2]) /\ cand' = cand
    BY <1>3, JobSource DEF Judge, batchRows, Inv, Batches, TypeOK
  <2>2. wk'[w] = [job |-> job, blocked |-> Blocks(job[2]), changed |-> ChangedRows(job[2]),
                  seen |-> approved]
    BY <1>0, <1>3 DEF Judge, Functions
  <2>3. c = job[2] /\ rows = ChangedRows(c) /\ ~Blocks(c)
    BY <2>2
  <2>4. count[c].rejected = 0
    <3>1. ~CountRules(c)
      BY <2>1, <2>3, NotBlocked, PublicationConstants
    <3>2. count[c].rejected \in Nat
      BY <2>1, <2>3 DEF Inv, TypeOK, Counts
    <3> QED BY <3>1, <3>2 DEF CountRules
  <2>5. \A p \in cand[c] : p \in rows \/ KeyInTable(ItemOf[c], p)
    BY <2>3 DEF ChangedRows, KeyInTable
  <2> QED BY <1>1, <2>1, <2>3, <2>4, <2>5 DEF RunCovers
<1> QED BY <1>2, <1>3, WorkerStep

\* A batch without rejections and with one answer of a key has each of its raw
\* rows skipped or accepted.
LEMMA NothingRejected ==
  ASSUME Inv, NEW c \in Sources, Rejections(c) = 0, OneAnswer(c), NEW r \in raw[c]
  PROVE  \/ Skips(ItemOf[c], r.row, KnownCodes)
         \/ Accepts(ItemOf[c], r.row, KnownCodes) /\ r.row \in NormalisedOf(c)
<1> DEFINE L == LatestByKey(ItemOf[c], raw[c])
           N == NormalisedOf(c)
           S == SkippedOf(c)
<1>1. r.row \in L
  <2>1. \A m \in raw[c] : m.at \in Nat
    BY DEF Inv, TypeOK
  <2>2. \A m \in raw[c] : m.at > r.at => RawKey(ItemOf[c], m.row) # RawKey(ItemOf[c], r.row)
    BY <2>1 DEF OneAnswer
  <2> QED BY <2>2 DEF LatestByKey
<1>2. N \in SUBSET L /\ S \in SUBSET L /\ N \cap S = {}
  BY DEF NormalisedOf, SkippedOf, Normalised, SkippedRows, Accepts
<1>3. /\ IsFiniteSet(L) /\ Cardinality(L) \in Nat
      /\ Cardinality(L) - Cardinality(N) - Cardinality(S) = 0
  BY NormalisedIsFinite DEF Rejections
<1>4. (r.row \in N => Accepts(ItemOf[c], r.row, KnownCodes))
      /\ (r.row \in S => Skips(ItemOf[c], r.row, KnownCodes))
  BY DEF NormalisedOf, SkippedOf, Normalised, SkippedRows
<1> HIDE DEF L, N, S
<1>5. IsFiniteSet(N) /\ IsFiniteSet(S) /\ Cardinality(N) \in Nat /\ Cardinality(S) \in Nat
  BY <1>2, <1>3, FS_Subset, FS_CardinalityType
<1>6. Cardinality(N \cup S) = Cardinality(N) + Cardinality(S)
  <2>1. Cardinality(N \cap S) = 0
    BY <1>2, FS_EmptySet
  <2>2. Cardinality(N \cup S) = Cardinality(N) + Cardinality(S) - Cardinality(N \cap S)
    BY <1>5, FS_Union
  <2> QED BY <1>5, <2>1, <2>2
<1>7. N \cup S = L
  <2>1. N \cup S \in SUBSET L
    BY <1>2
  <2> QED BY <1>3, <1>5, <1>6, <2>1, FS_Subset
<1> QED BY <1>1, <1>4, <1>7 DEF N

LEMMA RowsComeFromRawStep ==
  ASSUME Inv, CandidatesFromRaw, RowsComeFromRaw, Next
  PROVE  RowsComeFromRaw'
<1> SUFFICES ASSUME NEW i \in Items, NEW t \in table'[i]
             PROVE  \E r \in raw'[t.from] : /\ Accepts(i, r.row, KnownCodes')
                                            /\ t.pay = Payload(i, r.row)
  BY DEF RowsComeFromRaw
<1>1. \A q : Accepts(i, q, KnownCodes) => Accepts(i, q, KnownCodes')
  BY KnownGrows, AcceptsStays
<1>2. CASE t \in table[i]
  <2>1. t.from \in Sources /\ Cleaned(t.from)
    BY <1>2 DEF Inv, TypeOK, Batches
  <2>2. raw'[t.from] = raw[t.from]
    BY <2>1, BatchStays
  <2> QED BY <1>1, <1>2, <2>2 DEF RowsComeFromRaw
<1>3. ASSUME NEW w \in Workers, Writes(w, i, t)
      PROVE  \E r \in raw'[t.from] : Accepts(i, r.row, KnownCodes') /\ t.pay = Payload(i, r.row)
  <2>1. t.from \in Sources /\ t.pay \in cand[t.from] /\ ItemOf[t.from] = i
    BY <1>3, NewRow
  <2>2. raw' = raw
    BY <1>3 DEF Writes, Publish
  <2> QED BY <1>1, <2>1, <2>2 DEF CandidatesFromRaw
<1> QED BY <1>2, <1>3, TableStep

LEMMA NothingDroppedStep ==
  ASSUME Inv, BatchIsWhole, RunsCover, NothingDropped, Next
  PROVE  NothingDropped'
<1>0. Functions
  BY DEF Inv
<1> SUFFICES ASSUME NEW c \in approved', ItemOf[c] # Limit, NEW r \in raw'[c]
             PROVE  \/ Skips(ItemOf[c], r.row, KnownCodes')
                    \/ /\ Accepts(ItemOf[c], r.row, KnownCodes')
                       /\ KeyInTable(ItemOf[c], Payload(ItemOf[c], r.row))'
  BY DEF NothingDropped, KeyInTable, Limit
<1>1. /\ Skips(ItemOf[c], r.row, KnownCodes') <=> Skips(ItemOf[c], r.row, KnownCodes)
      /\ Accepts(ItemOf[c], r.row, KnownCodes') <=> Accepts(ItemOf[c], r.row, KnownCodes)
  BY MasterIsForLimits
<1>2. CASE c \in approved
  <2>1. c \in Sources /\ Cleaned(c) /\ ItemOf[c] \in Items
    BY <1>2, PublicationConstants DEF Inv, TypeOK, Batches
  <2>2. r \in raw[c]
    BY <2>1, BatchStays
  <2>3. \/ Skips(ItemOf[c], r.row, KnownCodes)
        \/ /\ Accepts(ItemOf[c], r.row, KnownCodes)
           /\ KeyInTable(ItemOf[c], Payload(ItemOf[c], r.row))
    BY <1>2, <2>2 DEF NothingDropped, KeyInTable, Limit
  <2> QED BY <1>1, <2>1, <2>3, KeysStayInTable
<1>3. CASE c \notin approved
  <2>1. PICK w \in Workers : Publish(w) /\ c = wk[w].job[2]
    BY <1>3, ApprovedStep
  <2>2. /\ wk[w].job # NoJob /\ ~wk[w].blocked /\ raw' = raw
        /\ c \in Sources /\ Cleaned(c) /\ ItemOf[c] \in Items
    BY <2>1, HeldBatch, PublicationConstants DEF Publish
  <2>3. OneAnswer(c) /\ RunCovers(c, wk[w].changed)
    BY <2>1, <2>2 DEF Inv, Judged, JudgedWell, RunsCover
  <2>4. cand[c] = PayloadsOf(c) /\ Rejections(c) = 0
    BY <1>3, <2>2, <2>3 DEF BatchIsWhole, RunCovers
  <2>5. \/ Skips(ItemOf[c], r.row, KnownCodes)
        \/ Accepts(ItemOf[c], r.row, KnownCodes) /\ r.row \in NormalisedOf(c)
    BY <2>2, <2>3, <2>4, NothingRejected
  <2>6. ASSUME r.row \in NormalisedOf(c)
        PROVE  KeyInTable(ItemOf[c], Payload(ItemOf[c], r.row))'
    <3> DEFINE p == Payload(ItemOf[c], r.row)
    <3>1. p \in cand[c]
      BY <2>4, <2>6 DEF PayloadsOf
    <3> HIDE DEF p
    <3>2. CASE p \in wk[w].changed
      <4>1. table'[ItemOf[c]] = Upserted(ItemOf[c], wk[w].changed, c)
        BY <1>0, <2>1, <2>2 DEF Publish, Functions
      <4>2. [pay |-> p, from |-> c] \in table'[ItemOf[c]]
        BY <3>2, <4>1 DEF Upserted
      <4> QED BY <4>2 DEF KeyInTable, p
    <3>3. CASE KeyInTable(ItemOf[c], p)
      BY <2>2, <3>3, KeysStayInTable DEF p
    <3> QED BY <2>3, <3>1, <3>2, <3>3 DEF RunCovers
  <2> QED BY <1>1, <2>5, <2>6
<1> QED BY <1>2, <1>3

LEMMA MirrorStep == Inv /\ MirrorInv /\ [Next]_vars => MirrorInv'
<1> SUFFICES ASSUME Inv, MirrorInv, [Next]_vars
             PROVE  MirrorInv'
  OBVIOUS
<1>1. CASE Next
  BY <1>1, CandidatesFromRawStep, BatchIsWholeStep, RunsCoverStep, RowsComeFromRawStep,
     NothingDroppedStep DEF MirrorInv, TablesMirrorRaw
<1>2. CASE UNCHANGED vars
  <2> USE <1>2 DEF vars, batchRows
  <2>1. /\ KnownCodes' = KnownCodes
        /\ \A c : /\ Cleaned(c)' = Cleaned(c) /\ PayloadsOf(c)' = PayloadsOf(c)
                  /\ Rejections(c)' = Rejections(c)
    BY DEF KnownCodes, Cleaned, PayloadsOf, NormalisedOf, SkippedOf, Rejections
  <2>2. CandidatesFromRaw' /\ BatchIsWhole'
    BY <2>1 DEF MirrorInv, CandidatesFromRaw, BatchIsWhole
  <2>3. RunsCover'
    BY DEF MirrorInv, RunsCover, RunCovers, KeyInTable
  <2>4. TablesMirrorRaw'
    BY <2>1 DEF MirrorInv, TablesMirrorRaw, RowsComeFromRaw, NothingDropped
  <2> QED BY <2>2, <2>3, <2>4 DEF MirrorInv
<1> QED BY <1>1, <1>2

\* The formal tables and the raw rows behind them agree in both directions: a
\* published row is the normal form of a raw row of the batch it names, and an
\* approved batch left none of its rows out, whatever other batches of the same
\* keys were judged and published meanwhile (_upsert_simple, _publish_minute).
THEOREM PublishedMirrorsRaw == Spec => []TablesMirrorRaw
<1>1. MirrorInv => TablesMirrorRaw
  BY DEF MirrorInv
<1> QED BY <1>1, MirrorInit, MirrorStep, InvAlways, PTL DEF Spec
=============================================================================
