------------------------------ MODULE StrategyPool ------------------------------
(***************************************************************************)
(* The stock pool of a strategy and the backtest of its picks              *)
(* (services/strategy_pool_service.py, repositories/strategy_pool_repo.py).*)
(* The pool is fed by hand and from scans: a stock has one row; removing   *)
(* it marks the row, adding it again is ignored.  In the backtest the      *)
(* strategy scans every trading day but the last, its best picks are       *)
(* bought on the next day and sold holding_days after the signal, unless a *)
(* bar forbids it.  Changes are in basis points of the previous close.     *)
(* Bars come from the local table, which has no change column, or from the *)
(* provider, which gives it in percent (services/stock_data_service.py).   *)
(***************************************************************************)
EXTENDS Integers, Sequences, FiniteSets

CONSTANTS Codes,      \* stock codes of the pool
          Prices,     \* prices at which a stock is added
          Results,    \* codes that a scan result may have
          Days,       \* number of trading days of the period
          Holdings,   \* values of holding_days
          Positions,  \* values of max_positions_per_day
          Scans,      \* what a scan may return: sequences of [code, risk]
          Market      \* the bars a code may have: functions from codes to days to bars

VARIABLES pool,                        \* the row of each code
          left,                        \* what a running add_scan_result_to_pool has still to add
          holding, positions, source,  \* the request and where bars come from
          bars,                        \* the bars of the market
          day,                         \* signal day at hand; Days once all are done
          picks,                       \* picks of the day not yet tried
          scanned,                     \* what the scan of each day returned
          trades, skipped,             \* the outcome so far
          drawdown                     \* max_drawdown of the summary, once made

poolVars == <<pool, left>>
testVars == <<holding, positions, source, bars, day, picks, scanned, trades, skipped, drawdown>>
vars == <<poolVars, testVars>>

NoRow == [status |-> "absent", price |-> 0]
PoolInit == pool = [c \in Codes |-> NoRow] /\ left = {}

\* add_to_pool: INSERT OR IGNORE under UNIQUE(strategy_code, code).
SlipAdded(c, p) == [pool EXCEPT ![c] = [status |-> "active", price |-> p]]
Added(c, p) == IF pool[c] = NoRow THEN [pool EXCEPT ![c] = [status |-> "active", price |-> p]] ELSE pool

\* add_stock_to_pool, a request of its own.
AddByHand(c, p) == pool' = Added(c, p) /\ UNCHANGED left

\* add_scan_result_to_pool: one insert after the other, others in between.
BeginScan(s) == left = {} /\ left' = s /\ UNCHANGED pool
AddScanned(c, p) == c \in left /\ left' = left \ {c} /\ pool' = Added(c, p)

RemoveStock(c) == /\ pool' = IF pool[c] = NoRow THEN pool ELSE [pool EXCEPT ![c].status = "removed"]
                  /\ UNCHANGED left

PoolNext == \/ \E c \in Codes : (\E p \in Prices : AddByHand(c, p) \/ AddScanned(c, p)) \/ RemoveStock(c)
            \/ \E s \in Results : BeginScan(s)

-------------------------------------------------------------------------------
Lesser(a, b) == IF a < b THEN a ELSE b

\* sorted(scan_results): least risk_score first, ties in the order of the scan.
Before(scan, i, j) == scan[i].risk < scan[j].risk \/ (scan[i].risk = scan[j].risk /\ i < j)
Ranked(scan) == CHOOSE p \in [DOMAIN scan -> DOMAIN scan] : \A i, j \in DOMAIN scan : i < j => Before(scan, p[i], p[j])
Best(scan) == [k \in 1..Lesser(positions, Len(scan)) |-> scan[Ranked(scan)[k]]]

EntryDay(d) == d + 1
ExitDay(d) == Lesser(d + holding, Days)

\* _normalized_pct: a change of at most one percent is taken for a fraction.
Normalized(pct) == IF pct > 100 \/ pct < -100 THEN pct ELSE 100 * pct
Change(bar) == IF source = "local" THEN 0 ELSE Normalized(bar.pct)
Threshold(code) == IF code = "growth" THEN 1980 ELSE 980

\* _is_suspended_bar: no bar is one without volume here.
Suspended(bar) == bar.volume = 0
LimitUp(bar, code) == \/ Change(bar) >= Threshold(code)
                      \/ bar.open > 0 /\ bar.open = bar.high /\ bar.close = bar.high /\ 10 * Change(bar) >= 8 * Threshold(code)
LimitDown(bar, code) == \/ Change(bar) <= -Threshold(code)
                        \/ bar.open > 0 /\ bar.open = bar.low /\ bar.close = bar.low /\ 10 * Change(bar) <= -8 * Threshold(code)
EntryPrice(bar) == IF bar.open > 0 THEN bar.open ELSE bar.close
ExitPrice(bar) == IF bar.close > 0 THEN bar.close ELSE bar.open

\* Why a pick is not traded, in the order the code asks.
Obstacle(entry, exit, code) ==
    IF Suspended(entry) THEN "suspended"
    ELSE IF LimitUp(entry, code) THEN "limit_up"
    ELSE IF Suspended(exit) THEN "suspended"
    ELSE IF LimitDown(exit, code) THEN "limit_down"
    ELSE IF EntryPrice(entry) = 0 \/ ExitPrice(exit) = 0 THEN "invalid_price" ELSE "none"

TestInit == /\ holding \in Holdings /\ positions \in Positions
            /\ source \in {"local", "provider"}
            /\ bars \in Market
            /\ day = 0
            /\ picks = <<>> /\ scanned = [d \in 1..Days |-> <<>>]
            /\ trades = <<>> /\ skipped = <<>>
            /\ drawdown = <<0, 0>>

-------------------------------------------------------------------------------
\* The next day's scan; one that fails counts as empty.
Scan == /\ picks = <<>> /\ day + 1 < Days
        /\ day' = day + 1
        /\ \E s \in Scans : picks' = Best(s) /\ scanned' = [scanned EXCEPT ![day'] = s]
        /\ UNCHANGED <<holding, positions, source, bars, trades, skipped, drawdown>>

\* One pick: left out without a code, skipped for a reason, or traded.
Try ==
    /\ picks # <<>> /\ drawdown = <<0, 0>>
    /\ LET code == Head(picks).code
           entry == bars[code][EntryDay(day)]
           exit == bars[code][ExitDay(day)]
           reason == Obstacle(entry, exit, code)
       IN IF code = "" THEN UNCHANGED <<trades, skipped>>
          ELSE IF reason # "none" THEN skipped' = Append(skipped, [signal |-> day, code |-> code, reason |-> reason]) /\ UNCHANGED trades
          ELSE /\ trades' = Append(trades, [signal |-> day, code |-> code, in |-> EntryDay(day), out |-> ExitDay(day),
                                              paid |-> EntryPrice(entry), got |-> ExitPrice(exit)])
               /\ UNCHANGED skipped
    /\ picks' = Tail(picks)
    /\ UNCHANGED <<holding, positions, source, bars, day, scanned, drawdown>>

\* _calculate_equity_curve, as fractions <<numerator, denominator>>.
Equity(ts) == LET e[i \in 1..Len(ts) + 1] ==
                      IF i = 1 THEN <<1, 1>> ELSE <<e[i - 1][1] * ts[i - 1].got, e[i - 1][2] * ts[i - 1].paid>>
              IN e
Exceeds(a, b) == a[1] * b[2] > b[1] * a[2]
Greater(a, b) == IF Exceeds(b, a) THEN b ELSE a

\* _calculate_max_drawdown: the fall from the highest value so far.
Drop(from, to) == <<from[1] * to[2] - to[1] * from[2], to[2] * from[1]>>
MaxDrawdown(curve) ==
    LET peak[i \in 1..Len(curve)] == IF i = 1 THEN curve[1] ELSE Greater(peak[i - 1], curve[i])
        worst[i \in 1..Len(curve)] == IF i = 1 THEN <<0, 1>> ELSE Greater(worst[i - 1], Drop(peak[i], curve[i]))
    IN worst[Len(curve)]

\* _build_summary; the result row is written, or the write fails unnoticed.
Finish == /\ picks = <<>> /\ day + 1 >= Days /\ drawdown = <<0, 0>>
          /\ drawdown' = MaxDrawdown(Equity(trades))
          /\ UNCHANGED <<holding, positions, source, bars, day, picks, scanned, trades, skipped>>

TestNext == Scan \/ Try \/ Finish

Init == PoolInit /\ TestInit
Next == (PoolNext /\ UNCHANGED testVars) \/ (TestNext /\ UNCHANGED poolVars)

Spec == Init /\ [][Next]_vars

-------------------------------------------------------------------------------
(* Whoever adds a stock, by hand or from a scan under way, its row keeps the   *)
(* price of the first add, and no later add brings a removed stock back, though*)
(* the answer says it was added.                                               *)
FirstAddStands ==
    [][\A c \in Codes : pool[c] # NoRow => /\ pool'[c].price = pool[c].price
                                           /\ pool[c].status = "removed" => pool'[c].status = "removed"]_pool

(* When the period is over every pick of a day that fewer than                 *)
(* max_positions_per_day others outrank is traded or skipped, once, and no     *)
(* other.                                                                      *)
Better(scan, i) == {j \in DOMAIN scan : Before(scan, j, i)}
PicksAccounted ==
    drawdown # <<0, 0>> =>
        \A d \in 1..Days - 1 :
            LET wanted == {i \in DOMAIN scanned[d] : Cardinality(Better(scanned[d], i)) < positions /\ scanned[d][i].code # ""}
                Of(ts) == {i \in DOMAIN ts : ts[i].signal = d}
            IN /\ {scanned[d][i].code : i \in wanted} = {trades[i].code : i \in Of(trades)} \cup {skipped[i].code : i \in Of(skipped)}
               /\ Cardinality(wanted) = Cardinality(Of(trades)) + Cardinality(Of(skipped))

(* With a holding of two days or more a trade is sold on a later day than it   *)
(* was bought, but for signals of the last day but one.                        *)
SoldLater == \A i \in DOMAIN trades : holding >= 2 /\ trades[i].signal + 1 < Days => trades[i].in < trades[i].out

(* With the changes the provider gives, no trade enters a bar at its upper     *)
(* limit or leaves one at its lower limit.                                     *)
AtLimit(bar, code) == bar.pct >= Threshold(code) \/ bar.pct <= -Threshold(code)
LimitsHold ==
    source = "provider" =>
        \A i \in DOMAIN trades : LET t == trades[i] IN
            /\ ~(AtLimit(bars[t.code][t.in], t.code) /\ bars[t.code][t.in].pct > 0)
            /\ ~(AtLimit(bars[t.code][t.out], t.code) /\ bars[t.code][t.out].pct < 0)

(* max_drawdown is the largest relative fall between any two points in order.  *)
WorstFall ==
    drawdown # <<0, 0>> =>
        LET e == Equity(trades)
        IN /\ \A j \in DOMAIN e : \A i \in 1..j : ~Exceeds(Drop(e[i], e[j]), drawdown)
           /\ \E j \in DOMAIN e : \E i \in 1..j : ~Exceeds(drawdown, Drop(e[i], e[j]))
===============================================================================
