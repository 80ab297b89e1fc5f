---------------------------- MODULE ConvertibleBond ----------------------------
(***************************************************************************)
(* The convertible bond strategy (strategies/strategy_convertible_bond.py):*)
(* which bonds it picks and in which order, and how run_model_backtest     *)
(* buys a pick on the day after its signal and sells it.  Prices are       *)
(* integers, premiums are counted in percent and scores in hundredths.     *)
(***************************************************************************)
EXTENDS Integers, Sequences, FiniteSets, FiniteSetsExt

CONSTANTS Prices,     \* prices of a bond on its signal day
          Values,     \* conversion values; zero is one that is not known
          Trends,     \* what the underlying does: "none", "falls", "holds", "rises"
          Flags,      \* event risks a bond may have
          Closes,     \* closes of later days; zero stands for a bar without a price
          Holding     \* holding_days asked for, at most max_holding_days

VARIABLES bond,    \* [price, value, trend, flags, size, amount]
          step,    \* "listed", "held", "sold" or "skipped"
          entry,   \* the price paid
          exit,    \* [price, day] of the bar last kept, days counted from the entry
          reason,  \* exit_reason or skip_reason
          seen     \* closes from the entry day on; -1 for a day without a bar

vars == <<bond, step, entry, exit, reason, seen>>

None == [price |-> 0, day |-> 0]
Bonds == [price : Prices, value : Values, trend : Trends, flags : SUBSET Flags, size : {1, 3}, amount : {10, 30}]
Init == bond \in Bonds /\ step = "listed" /\ entry = 0 /\ exit = None /\ reason = "" /\ seen = <<>>

Clamp(x, cap) == Max({0, Min({cap, x})})
\* premium_rate and double_low, in percent of the conversion value.
Premium(price, value) == (100 * price) \div value - 100
DoubleLow(b) == b.price + Premium(b.price, b.value)

\* _event_risk
Risky(b) == b.flags # {}

\* _stock_trend_score
TrendScore(b) == CASE b.trend = "none" -> 700 [] b.trend = "falls" -> 0 [] b.trend = "holds" -> 1100 [] b.trend = "rises" -> 1500

\* _score: the total, and the risk that orders the picks.
PriceScore(b) == Clamp((125 - b.price) * 160, 4000)
Total(b) == PriceScore(b) + Clamp((30 - Premium(b.price, b.value)) * 75, 3000) + Clamp(((145 - DoubleLow(b)) * 1000) \div 45, 1000) + TrendScore(b)
            + Clamp(b.amount * 30, 600) + Clamp(b.size * 200, 400) + (IF Risky(b) THEN 0 ELSE 500)
RiskScore(b) == Clamp(10000 - Total(b) + Cardinality(b.flags) * 1500, 10000)

\* _analyze_bond: the conditions of a pick, and its subtype.
Picked(b) == /\ b.price > 0 /\ b.value > 0 /\ ~Risky(b)
             /\ b.price >= 100 /\ b.price <= 125 /\ Premium(b.price, b.value) <= 30 /\ DoubleLow(b) <= 145
             /\ b.size >= 2 /\ b.amount >= 20
Core(b) == b.price <= 118 /\ Premium(b.price, b.value) <= 25

\* Another bond, or this one at another price.
Reprice == step = "listed" /\ (\E p \in Prices : bond' = [bond EXCEPT !.price = p]) /\ UNCHANGED <<step, entry, exit, reason, seen>>

-------------------------------------------------------------------------------
\* _simulate_trade, one day of the loop: what a close makes of the position.
Trigger(close, paid) ==
    IF close >= 130 THEN "take_profit_price"
    ELSE IF Premium(close, bond.value) >= 40 THEN "premium_expanded"
    ELSE IF 100 * (close - paid) <= -6 * paid THEN "stop_loss" ELSE "none"

SlipLastDay(d) == d > Holding
LastDay(d) == d >= Holding
\* The end of the loop, by a break or by the last day of the window.
Sale(close, d, why) == IF close > 0 THEN step' = "sold" /\ reason' = why ELSE step' = "skipped" /\ reason' = "invalid_exit_price"
Look(close, d, paid) ==
    /\ seen' = Append(seen, close)
    /\ exit' = IF close = -1 THEN exit ELSE [price |-> close, day |-> d]
    /\ IF close # -1 /\ Trigger(close, paid) # "none" THEN Sale(close, d, Trigger(close, paid))
       ELSE IF LastDay(d) THEN Sale(exit'.price, d, "max_holding_days") ELSE step' = "held" /\ reason' = ""

Enter(open, close) ==
    /\ step = "listed" /\ Picked(bond)
    /\ entry' = IF open > 0 THEN open ELSE close
    /\ IF entry' <= 0 THEN step' = "skipped" /\ reason' = "invalid_entry_price" /\ UNCHANGED <<exit, seen>>
                      ELSE Look(close, 1, entry')
    /\ UNCHANGED bond
Hold(close) == step = "held" /\ Look(close, Len(seen) + 1, entry) /\ UNCHANGED <<bond, entry>>

\* The period ends before the window does.
EndOfPeriod == step = "held" /\ Sale(exit.price, exit.day, "max_holding_days") /\ UNCHANGED <<bond, entry, exit, seen>>

Next == \/ Reprice \/ EndOfPeriod
        \/ \E open, close \in Closes : Enter(open, close)
        \/ \E close \in Closes \cup {-1} : Hold(close)

Spec == Init /\ [][Next]_vars

-------------------------------------------------------------------------------
(* At a lower price, all else equal, a bond that is picked at both prices      *)
(* comes no later in the list, and what was core stays core.                   *)
CheaperRanksFirst ==
    [][step = "listed" /\ step' = "listed" /\ bond'.price < bond.price /\ Picked(bond) /\ Picked(bond')
          => RiskScore(bond') <= RiskScore(bond) /\ (Core(bond) => Core(bond'))]_vars

(* A position is sold at the first close that calls for it, for the reason     *)
(* that close gives, and otherwise at the last close there was in the window;  *)
(* days without a bar are passed over, and it is held for at most Holding days.*)
SoldAtFirst ==
    step = "sold" =>
        LET calls == {d \in DOMAIN seen : seen[d] # -1 /\ Trigger(seen[d], entry) # "none"}
            bars == {d \in DOMAIN seen : seen[d] # -1}
            at == IF calls # {} THEN Min(calls) ELSE Max(bars)
        IN exit = [price |-> seen[at], day |-> at] /\ at <= Holding /\ Len(seen) <= Holding
           /\ reason = IF calls # {} THEN Trigger(seen[at], entry) ELSE "max_holding_days"
===============================================================================
