--------------------------- MODULE MCPublication ---------------------------
(***************************************************************************)
(* Instances of Publication: one security of SSE (A), one of BSE (N), the  *)
(* alias of a delisted one (T), day 1, and a grid of two minutes.          *)
(***************************************************************************)
EXTENDS Publication, TLC

WorkerSymmetry == Permutations(Workers)

MCExchangeOf == [k \in {"A", "N", "T"} |-> IF k = "N" THEN "BSE" ELSE "SSE"]
MCSessions == {<<1, 1>>, <<3, 3>>}

\* The sessions of the code, 09:30 to 11:30 and 13:01 to 15:00, have 241 bars.
ASSUME Cardinality(UNION {570 .. 690, 781 .. 900}) = 241

Cal(isOpen) == [exch |-> "SSE", day |-> 1, open |-> isOpen, prev |-> Null]
Sec(code, exch, status) == [code |-> code, exch |-> exch, status |-> status,
                            listed |-> 1, delisted |-> Null]
Price(code, p) == [code |-> code, day |-> 1, open |-> p, high |-> p, low |-> p,
                   close |-> p, vol |-> 10, amount |-> 1]
Basic(code, p, share) == [code |-> code, day |-> 1, close |-> p, share |-> share,
                          limitStatus |-> Null]
Limit(code, up, down) == [code |-> code, day |-> 1, pre |-> Null, up |-> up, down |-> down]
Factor(code, f) == [code |-> code, day |-> 1, factor |-> f]
Suspend(code, type) == [code |-> code, day |-> 1, type |-> type, timing |-> ""]
Bar(code, m, p) == [code |-> code, freq |-> "1MIN", time |-> <<1, m>>, open |-> p,
                    high |-> p, low |-> p, close |-> p, vol |-> 1000, amount |-> Null]
Day1 == [day |-> 1]
Range1 == [exch |-> "SSE", from |-> 1, to |-> 1]
MinuteOf(code) == [code |-> code, freq |-> "1min", day |-> 1]

Plan == <<
  [item |-> "trade_calendar", scope |-> Range1, answers |-> {<<Cal("1")>>}],
  [item |-> "trade_calendar", scope |-> Range1, answers |-> {<<Cal("0")>>}],
  [item |-> "stock_basic", scope |-> [market |-> "CN_A"],
   answers |-> {<<Sec("A", "SSE", "L"), Sec("T", "SSE", "D")>>}],
  [item |-> "stock_basic", scope |-> [market |-> "CN_A"],
   answers |-> {<<Sec("A", "SSE", "L"), Sec("N", "BSE", "L")>>}],
  [item |-> "stock_daily", scope |-> Day1,
   answers |-> {<<Price("A", 5)>>, <<Price("A", 5), Price("N", 5)>>}],
  [item |-> "stock_daily", scope |-> Day1, answers |-> {<<Price("A", 6)>>}],
  [item |-> "stock_daily_basic", scope |-> Day1,
   answers |-> {<<Basic("A", 5, 1)>>, <<Basic("A", 5, 1), Basic("A", 6, 1)>>}],
  [item |-> "stock_limit_price", scope |-> Day1,
   answers |-> {<<Limit("A", 5, 4), Limit("N", 9, 1)>>}],
  [item |-> "stock_adj_factor", scope |-> Day1, answers |-> {<<Factor("A", 1)>>}],
  [item |-> "stock_suspend", scope |-> Day1,
   answers |-> {<<>>, <<Suspend("A", "S"), Suspend("A", "s")>>}],
  [item |-> "stock_minute", scope |-> MinuteOf("A"),
   answers |-> {<<Bar("A", 1, 5), Bar("A", 3, 5)>>, <<Bar("A", 1, 5)>>}],
  [item |-> "stock_minute", scope |-> MinuteOf("N"),
   answers |-> {<<Bar("N", 1, 5), Bar("N", 3, 6)>>,
                <<Bar("N", 1, Null), Bar("N", 3, 5)>>}]
>>

\* What closes together: the calendar, the master and the daily rows with each
\* item that is compared with them, first answers and revised ones.
Group(sources, versions, again) ==
  [sources |-> sources, versions |-> versions, again |-> again]
MCBounds == {Group({1, 3, 5, 6}, 2, {5}), Group({3, 10}, 2, {10}),
             Group({1, 3, 5, 6, 7}, 1, {}), Group({1, 2, 3, 5, 8}, 1, {}),
             Group({1, 3, 4, 8}, 1, {}), Group({1, 2, 3, 9}, 1, {}), Group({1, 3, 5, 6, 11}, 1, {}),
             Group({1, 3, 4, 5, 12}, 1, {})}

MCSources == DOMAIN Plan
MCItemOf  == [c \in MCSources |-> Plan[c].item]
MCScopeOf == [c \in MCSources |-> Plan[c].scope]
MCAnswers == [c \in MCSources |-> Plan[c].answers]
=============================================================================
