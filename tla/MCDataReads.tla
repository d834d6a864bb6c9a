---------------------------- MODULE MCDataReads ----------------------------
(***************************************************************************)
(* An instance of DataReads: two batches disagree about the first of two   *)
(* days of a security, with a batch of each other item that a query reads. *)
(***************************************************************************)
EXTENDS DataReads

Day1 == [code |-> "A", day |-> 1]
Day2 == [code |-> "A", day |-> 2]
Pair == {Day1, Day2}
Row(k, v) == [key |-> k, val |-> v]

MCItemOf == [b \in Batches |->
  CASE b \in {"d1", "d2"} -> "stock_daily" [] b = "f" -> "stock_adj_factor"
    [] b = "c" -> "trade_calendar" [] b = "s" -> "stock_suspend"
    [] b = "l" -> "stock_limit_price" [] b = "m" -> "stock_minute"
    [] OTHER -> "stock_basic"]
MCRowsOf == [b \in Batches |->
  CASE b = "d1" -> {Row(Day1, 1), Row(Day2, 1)} [] b = "d2" -> {Row(Day1, 2)}
    [] OTHER -> {Row(Day1, 1)}]
\* A batch of the first set has one quality run, one of the second two.
Judged(once, twice) ==
  [b \in Batches |-> IF b \in twice THEN 2 ELSE IF b \in once THEN 1 ELSE 0]
MCBounds ==
  {Judged({"d2"}, {"d1"}), Judged({"d1", "f"}, {}), Judged({"d2", "c"}, {}),
   Judged({"s", "l"}, {}), Judged({}, {"m"}), Judged({"b"}, {})}

Query(endpoint, policy) ==
  [endpoint |-> endpoint, mode |-> "research", table |-> "stock_daily",
   codes |-> "some", keys |-> Pair, batch |-> "d1", asOf |-> Null, cutoff |-> Null,
   policy |-> policy, adjustment |-> "none", frequency |-> "daily"]
Replay(endpoint, mode) ==
  [Query(endpoint, "lenient") EXCEPT !.mode = mode, !.asOf = 1]
Lineage(item) == [Query("lineage", "standard") EXCEPT !.table = item, !.keys = {Day1}]
Adjusting(q) == [q EXCEPT !.adjustment = "forward_adj"]
Resampling(q, frequency) == [q EXCEPT !.frequency = frequency]

MCRequests ==
  {Query("daily", "standard"), Query("events", "strict"), Query("events", "lenient"),
   Adjusting(Query("daily", "lenient")),
   Resampling(Query("daily", "lenient"), "weekly"),
   Replay("daily", "strategy"), Adjusting(Replay("daily", "backtest")),
   [Resampling(Replay("daily", "backtest"), "monthly") EXCEPT !.cutoff = 0],
   [Replay("events", "backtest") EXCEPT !.asOf = Null],
   Replay("events", "strategy"), Query("calendar", "standard"),
   Query("securities", "standard"), Query("financial", "standard"),
   Query("minute", "standard"), [Query("minute", "standard") EXCEPT !.codes = "over"],
   [Query("daily", "standard") EXCEPT !.codes = "none"],
   Lineage("stock_daily"), Lineage("stock_minute"),
   [Query("batch", "standard") EXCEPT !.batch = Null],
   [Lineage("stock_daily") EXCEPT !.keys = {}], Query("batch", "standard")}
=============================================================================
