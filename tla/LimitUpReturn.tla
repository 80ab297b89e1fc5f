----------------------------- MODULE LimitUpReturn -----------------------------
(***************************************************************************)
(* The signals of the limit-up-return strategy                             *)
(* (strategies/strategy_limit_up_return.py) for one stock, as its bars     *)
(* come in day by day: the latest limit-up, the pullback that follows it,  *)
(* and what the last bar makes of it.  Prices are integers, percentages    *)
(* and scores are counted in thousandths and tenths.                       *)
(***************************************************************************)
EXTENDS Integers, Sequences, FiniteSets, SequencesExt, FiniteSetsExt

CONSTANTS Identities,  \* what is known of a stock: [type, st, board]
          Bars,        \* the bars a day may bring: [low, close, high, ratio]
          MaxAge,      \* max_event_age
          MinBars,     \* min_bars
          Days         \* bound on bars

VARIABLES stock,  \* its identity
          bars    \* its bars so far; the first one is the base

vars == <<stock, bars>>

None == [subtype |-> "none"]
Base == [low |-> 100, close |-> 100, high |-> 100, ratio |-> 10]
Init == stock \in Identities /\ bars = <<Base>>

\* infer_limit_up_rule, in percent; zero stands for a rule that is unconfirmed.
Percent == IF stock.type # "stock" THEN 0 ELSE IF stock.st THEN 5
           ELSE CASE stock.board = "bj" -> 30 [] stock.board \in {"star", "chinext"} -> 20 [] stock.board = "main" -> 10 [] OTHER -> 0

\* _limit_price in hundredths, and _is_limit_up_bar.
LimitPrice(i) == bars[i - 1].close * (100 + Percent)
LimitUp(i) == LET near == LimitPrice(i) * 997 IN
              \/ bars[i].close * 100000 >= near /\ bars[i].high * 100000 >= near
              \/ (bars[i].close - bars[i - 1].close) * 10000 >= (Percent * 100 - 25) * bars[i - 1].close

\* _find_latest_limit_up_event: never the last bar; zero when there is none.
Event == LET last == Len(bars)
             hit == {i \in Max({2, last - MaxAge})..last - 1 : LimitUp(i)}
         IN IF Percent = 0 \/ hit = {} THEN 0 ELSE Max(hit)

After(e) == e + 1..Len(bars)
Lowest(e) == Min({bars[i].low : i \in After(e)})
LastBar == bars[Len(bars)]

\* _pullback_valid
SlipPullback(e) == LET c == bars[e].close
                       low == LastBar.low
                   IN 25 * c <= 1000 * (c - low) /\ 1000 * (c - low) <= 160 * c /\ 1000 * low >= 975 * bars[e - 1].close
Pullback(e) == LET c == bars[e].close
                   low == Lowest(e)
               IN 25 * c <= 1000 * (c - low) /\ 1000 * (c - low) <= 160 * c /\ 1000 * low >= 975 * bars[e - 1].close

\* _failed_pullback
Failed(e) == 1000 * LastBar.close < 975 * (IF Pullback(e) THEN Max({bars[e - 1].close, Lowest(e)}) ELSE bars[e - 1].close)

\* _support_confirmed and _reattack_trigger; ratios of volume are in tenths.
Support(e) == /\ 1000 * LastBar.close >= 975 * Max({bars[e - 1].close, Lowest(e)})
              /\ LastBar.ratio <= 9 \/ 100 * LastBar.close >= 98 * bars[e].close
Reattack(e) == LET prior == {bars[i].high : i \in After(e) \ {Len(bars)}}
               IN 100 * LastBar.close >= 101 * Max(prior \cup {bars[e].close}) /\ LastBar.ratio >= 11

\* _score_signal, in tenths.
Score(e, subtype, support) ==
    Max({0, Min({1000, 450 + 100 + (IF Pullback(e) THEN 150 + Max({0, 100 - (500 * (bars[e].close - Lowest(e))) \div bars[e].close}) ELSE 0)
                       + (IF support THEN 100 ELSE 0) + (IF subtype = "breakout_confirmed" THEN 180 ELSE 0)
                       - (IF subtype = "failed_pullback" THEN 350 + 60 ELSE 0)})})

\* _analyze_stock: what the strategy says after the last bar.
Subtype(e) == IF Failed(e) THEN "failed_pullback"
              ELSE IF Pullback(e) /\ Reattack(e) THEN "breakout_confirmed"
              ELSE IF Pullback(e) /\ Support(e) THEN "pullback_setup" ELSE "none"
Payload(e, subtype) == LET support == subtype # "failed_pullback" /\ Support(e)
                       IN [subtype |-> subtype, event |-> e, pullback |-> Pullback(e), support |-> support, score |-> Score(e, subtype, support)]
Signal == IF Len(bars) < MinBars \/ Event = 0 THEN None
          ELSE IF Subtype(Event) = "none" THEN None ELSE Payload(Event, Subtype(Event))

Next == \E bar \in Bars : Len(bars) < Days /\ bars' = Append(bars, bar) /\ UNCHANGED stock
Spec == Init /\ [][Next]_vars

-------------------------------------------------------------------------------
(* Once the strategy has said that the support of a limit-up failed, it never  *)
(* again sees a setup or a breakout in that limit-up, however prices recover.  *)
BrokenStaysBroken ==
    [][bars' # bars /\ Signal.subtype = "failed_pullback" /\ Signal'.subtype \notin {"none", "failed_pullback"} => Signal'.event # Signal.event]_vars

(* The stages rank: a signal to buy at a breakout scores above every setup,    *)
(* a setup above every failure, and a failure never shows a support.           *)
StagesRank == CASE Signal.subtype = "failed_pullback" -> Signal.score <= 200 /\ ~Signal.pullback
                [] Signal.subtype = "pullback_setup" -> Signal.score > 200 /\ Signal.score < 900 /\ Signal.support
                [] Signal.subtype = "breakout_confirmed" -> Signal.score >= 900 /\ Signal.support
                [] OTHER -> TRUE

(* A new limit-up takes the place of the old one, so that no signal is about   *)
(* a limit-up that another one followed, nor about one of the last bar.        *)
LatestCounts == Signal # None => /\ Signal.event < Len(bars) /\ Len(bars) - Signal.event <= MaxAge
                                 /\ \A i \in Signal.event + 1..Len(bars) - 1 : ~LimitUp(i)
===============================================================================
