----------------------------- MODULE MarketData -----------------------------
(***************************************************************************)
(* The rows of the eight governed DataItems: what the raw tables hold      *)
(* (app/storage/models/raw.py), how CleanExecutor._normalize turns a raw   *)
(* row into a canonical one, skips or rejects it (app/governance/          *)
(* executor.py), and the business keys of the formal tables                *)
(* (app/storage/models/clean.py).                                          *)
(*                                                                         *)
(* Fields that are only copied are left out; one price, quantity or date   *)
(* stands for the fields that are treated alike.  A raw quantity is a      *)
(* number of thousandths, so that a quantity which is no whole number of   *)
(* shares can be told from one that is.                                    *)
(***************************************************************************)
EXTENDS Integers, Sequences, FiniteSets

CONSTANTS
  CanonCodes,    \* codes of the form 000001.SZ
  HistoricCodes, \* codes of the form T000001.SZ
  OtherCodes,    \* any other string
  ExchangeOf,    \* the exchange that the suffix of a code names
  Sessions,      \* pairs <first, last> of minutes of the day
  Null, Inf,     \* None, and a float that is not finite
  Bad            \* a date or time that does not parse

Exchanges == {"SSE", "SZSE", "BSE"}

ASSUME MarketDataConstants ==
  /\ CanonCodes \cap HistoricCodes = {}
  /\ OtherCodes \cap (CanonCodes \cup HistoricCodes) = {}
  /\ ExchangeOf \in [CanonCodes \cup HistoricCodes -> Exchanges]
  /\ \A s \in Sessions : s \in Nat \X Nat
  /\ Null \notin Int /\ Inf \notin Int /\ Bad \notin Int
  /\ Null \notin {"", "AM", "PM"}
  /\ Null # Inf /\ Inf # Bad /\ Null # Bad

Items == {"trade_calendar", "stock_basic", "stock_daily", "stock_adj_factor",
          "stock_daily_basic", "stock_suspend", "stock_limit_price",
          "stock_minute"}
TradeDateItems == {"stock_daily", "stock_adj_factor", "stock_daily_basic",
                   "stock_suspend", "stock_limit_price"}

RawCode == CanonCodes \cup HistoricCodes \cup OtherCodes
RawDate == Int \cup {Bad}
RawNum  == Int \cup {Null, Inf}

-----------------------------------------------------------------------------
(***************************************************************************)
(* The raw tables.                                                         *)
(***************************************************************************)
TushareTradeCal ==
  [exch : Exchanges \cup {"OTHER"}, day : RawDate, open : {"0", "1", "OTHER"},
   prev : RawDate \cup {Null}]
TushareStockBasic ==
  [code : RawCode, exch : Exchanges \cup {"OTHER"},
   status : {"L", "D", "P", "G", "OTHER"},
   listed : RawDate \cup {Null}, delisted : RawDate \cup {Null}]
TushareDaily ==
  [code : RawCode, day : RawDate, open : RawNum, high : RawNum, low : RawNum,
   close : RawNum, vol : RawNum, amount : RawNum]
TushareAdjFactor == [code : RawCode, day : RawDate, factor : RawNum]
TushareDailyBasic ==
  [code : RawCode, day : RawDate, close : RawNum, share : RawNum,
   limitStatus : Int \cup {Null}]
TushareSuspendD ==
  [code : RawCode, day : RawDate, type : {"S", "R", "s", "r", "OTHER"},
   timing : {Null, "", "AM", "PM"}]
TushareStkLimit ==
  [code : RawCode, day : RawDate, pre : RawNum, up : RawNum, down : RawNum]
TushareStkMins ==
  [code : RawCode, freq : {"1min", "1MIN", "5min", "OTHER"},
   time : (Int \X Int) \cup {Bad},
   open : RawNum, high : RawNum, low : RawNum, close : RawNum,
   vol : RawNum, amount : RawNum]

RawRow ==
  [trade_calendar |-> TushareTradeCal, stock_basic |-> TushareStockBasic,
   stock_daily |-> TushareDaily, stock_adj_factor |-> TushareAdjFactor,
   stock_daily_basic |-> TushareDailyBasic, stock_suspend |-> TushareSuspendD,
   stock_limit_price |-> TushareStkLimit, stock_minute |-> TushareStkMins]

-----------------------------------------------------------------------------
(***************************************************************************)
(* The formal tables.                                                      *)
(***************************************************************************)
Num == Int \cup {Null}

TradeCalendar == [exch : Exchanges, day : Int, open : BOOLEAN, prev : Num]
SecurityMaster ==
  [code : CanonCodes, exch : Exchanges, status : {"L", "D", "P", "G"},
   listed : Num, delisted : Num]
StockDaily ==
  [code : CanonCodes, day : Int, open : Num, high : Num, low : Num, close : Num,
   vol : Num, amount : Num]
StockAdjFactor == [code : CanonCodes, day : Int, factor : Nat \ {0}]
StockDailyBasic ==
  [code : CanonCodes, day : Int, close : Num, share : Num,
   limitStatus : 0 .. 6 \cup {Null}]
StockSuspendEvent ==
  [code : CanonCodes, day : Int, type : {"S", "R"}, timing : {Null, "AM", "PM"}]
StockLimitPrice == [code : CanonCodes, day : Int, pre : Num, up : Num, down : Num]
StockMinute ==
  [code : CanonCodes, freq : {"1min"}, time : Int \X Int, open : Num, high : Num,
   low : Num, close : Num, vol : Num, amount : Num]

FormalRow ==
  [trade_calendar |-> TradeCalendar, stock_basic |-> SecurityMaster,
   stock_daily |-> StockDaily, stock_adj_factor |-> StockAdjFactor,
   stock_daily_basic |-> StockDailyBasic, stock_suspend |-> StockSuspendEvent,
   stock_limit_price |-> StockLimitPrice, stock_minute |-> StockMinute]

-----------------------------------------------------------------------------
(***************************************************************************)
(* Conversions.                                                            *)
(***************************************************************************)
\* minute_rules: the bar-end grid, both ends of a session included.
Grid(day) == UNION {{<<day, m>> : m \in s[1] .. s[2]} : s \in Sessions}

FormalFrequency == "1min"
NormalFrequency(freq) ==
  CASE freq = "OTHER" -> Null [] freq = "1MIN" -> "1min" [] OTHER -> freq

Finite(v) == v # Inf
\* _int_exact: raises unless the product is a whole number.
IsExact(v, factor) == v = Null \/ (v \in Int /\ (v * factor) % 1000 = 0)
Exact(v, factor)   == IF v = Null THEN Null ELSE (v * factor) \div 1000
Scaled(v, factor)  == IF v = Null THEN Null ELSE v * factor

Upper(type)    == CASE type = "s" -> "S" [] type = "r" -> "R" [] OTHER -> type
Timing(timing) == IF timing = "" THEN Null ELSE timing

\* The key by which _latest_by_key drops all but the last raw row.
RawKey(item, r) ==
  CASE item = "trade_calendar" -> <<r.exch, r.day>>
    [] item = "stock_basic"    -> <<r.code>>
    [] item = "stock_suspend"  -> <<r.code, r.day, r.type, Timing(r.timing)>>
    [] item = "stock_minute"   -> <<r.code, r.freq, r.time>>
    [] OTHER                   -> <<r.code, r.day>>

\* A raw row comes with its place in the order of (_fetched_at, _raw_id).
LatestByKey(item, rows) ==
  {r.row : r \in {n \in rows : \A m \in rows :
                    m.at > n.at => RawKey(item, m.row) # RawKey(item, n.row)}}

-----------------------------------------------------------------------------
(***************************************************************************)
(* _normalize: a raw row is skipped, accepted, or (where a conversion      *)
(* raises) rejected.  known: the codes of security_master.                 *)
(***************************************************************************)
IsHistoricalSource(r) ==
  /\ r.code \in HistoricCodes
  /\ r.status = "D"
  /\ r.exch = ExchangeOf[r.code]

Skips(item, r, known) ==
  CASE item = "stock_basic"       -> IsHistoricalSource(r)
    [] item = "stock_limit_price" -> r.code \in CanonCodes \ known
    [] item = "stock_minute"      ->
         /\ r.code \in CanonCodes
         /\ NormalFrequency(r.freq) \notin {Null, FormalFrequency}
    [] OTHER -> FALSE

AcceptsCalendar(r) ==
  r.exch \in Exchanges /\ r.open \in {"0", "1"} /\ r.day \in Int /\ r.prev # Bad
AcceptsBasic(r) ==
  /\ r.code \in CanonCodes
  /\ r.exch = ExchangeOf[r.code]
  /\ r.status \in {"L", "D", "P", "G"}
  /\ r.listed # Bad /\ r.delisted # Bad
AcceptsDay(r) == r.code \in CanonCodes /\ r.day \in Int
AcceptsDaily(r) ==
  /\ AcceptsDay(r)
  /\ \A v \in {r.open, r.high, r.low, r.close, r.amount} : Finite(v)
  /\ IsExact(r.vol, 100)
AcceptsFactor(r) == AcceptsDay(r) /\ r.factor \in Int /\ r.factor > 0
AcceptsDailyBasic(r) ==
  /\ AcceptsDay(r)
  /\ Finite(r.close)
  /\ r.limitStatus \in 0 .. 6 \cup {Null}
  /\ IsExact(r.share, 10000)
AcceptsSuspend(r) == AcceptsDay(r) /\ Upper(r.type) \in {"S", "R"}
AcceptsLimit(r) ==
  AcceptsDay(r) /\ \A v \in {r.pre, r.up, r.down} : Finite(v)
AcceptsMinute(r) ==
  /\ r.code \in CanonCodes
  /\ NormalFrequency(r.freq) = FormalFrequency
  /\ r.time # Bad
  /\ \A v \in {r.open, r.high, r.low, r.close, r.amount} : Finite(v)
  /\ IsExact(r.vol, 1)

Accepts(item, r, known) ==
  /\ ~Skips(item, r, known)
  /\ CASE item = "trade_calendar"    -> AcceptsCalendar(r)
       [] item = "stock_basic"       -> AcceptsBasic(r)
       [] item = "stock_daily"       -> AcceptsDaily(r)
       [] item = "stock_adj_factor"  -> AcceptsFactor(r)
       [] item = "stock_daily_basic" -> AcceptsDailyBasic(r)
       [] item = "stock_suspend"     -> AcceptsSuspend(r)
       [] item = "stock_limit_price" -> AcceptsLimit(r)
       [] item = "stock_minute"      -> AcceptsMinute(r)

-----------------------------------------------------------------------------
(***************************************************************************)
(* The payload of an accepted row, and its business key.                   *)
(***************************************************************************)
CalendarRow(r) == [r EXCEPT !.open = (r.open = "1")]
DailyRow(r) == [r EXCEPT !.vol = Exact(r.vol, 100), !.amount = Scaled(r.amount, 1000)]
BasicRow(r) == [r EXCEPT !.share = Exact(r.share, 10000)]
SuspendRow(r) == [r EXCEPT !.type = Upper(r.type), !.timing = Timing(r.timing)]
MinuteRow(r) == [r EXCEPT !.freq = NormalFrequency(r.freq), !.vol = Exact(r.vol, 1)]

Payload(item, r) ==
  CASE item = "trade_calendar"    -> CalendarRow(r)
    [] item = "stock_daily"       -> DailyRow(r)
    [] item = "stock_daily_basic" -> BasicRow(r)
    [] item = "stock_suspend"     -> SuspendRow(r)
    [] item = "stock_minute"      -> MinuteRow(r)
    [] OTHER                      -> r

KeyOf(item, p) ==
  CASE item = "trade_calendar" -> <<p.exch, p.day>>
    [] item = "stock_basic"    -> <<p.code>>
    [] item = "stock_suspend"  -> <<p.code, p.day, p.type, p.timing>>
    [] item = "stock_minute"   -> <<p.code, p.freq, p.time>>
    [] OTHER                   -> <<p.code, p.day>>

Normalised(item, rows, known) ==
  {r \in LatestByKey(item, rows) : Accepts(item, r, known)}
SkippedRows(item, rows, known) ==
  {r \in LatestByKey(item, rows) : Skips(item, r, known)}
=============================================================================
