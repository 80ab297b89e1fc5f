----------------------------- MODULE Strategy2560 -----------------------------
(***************************************************************************)
(* How the 2560 strategy reads the last bar of a stock                     *)
(* (strategies/strategy_2560.py): the phase of its volume, the subtype of  *)
(* its signal, its score and its risk.  A frame is what the indicators say *)
(* of the last bars.  Ratios of volume are in tenths, distances in         *)
(* percent, slopes in thousandths, amounts in millions, scores in tenths.  *)
(***************************************************************************)
EXTENDS Integers, FiniteSets, FiniteSetsExt

CONSTANTS Ratios5,   \* values of vr5_60
          Ratios1,   \* values of vr1_60
          Distances, \* values of dist25, never below -1 here
          Amounts,   \* values of amount_ma20
          MinScore   \* min_score, in tenths

VARIABLE frame
vars == <<frame>>

\* _calculate_indicators: the averages tie the conditions of a frame together.
Candidates == [trend : {"none", "core", "strong"}, shrink : BOOLEAN, fresh : BOOLEAN, crossed : BOOLEAN, built : BOOLEAN, failed : BOOLEAN,
               vr5 : Ratios5, vr1 : Ratios1, dist : Distances, slope : {0, 4, 20}, below60 : BOOLEAN, amount : Amounts]
Frames == {f \in Candidates :
    /\ (f.trend = "none") = (f.slope = 0)
    /\ f.trend = "strong" => ~f.below60
    /\ f.shrink => f.trend # "none" /\ f.dist <= 5 /\ f.vr1 <= f.vr5
    /\ f.fresh => ~f.failed /\ ~f.shrink
    /\ f.built => 8 < f.vr5 /\ f.vr5 <= 12}

Init == frame \in Frames

\* The conditions of _classify_signal.
Core(f) == f.trend # "none"
Base(f) == f.vr5 >= 10
Breakout(f) == Core(f) /\ f.fresh /\ f.vr1 >= 13
Impulse(f) == Core(f) /\ f.crossed
Build(f) == Core(f) /\ f.built
Extreme(f) == f.vr1 >= 30

Phase(f) == IF f.failed THEN "failed_breakout" ELSE IF Extreme(f) THEN "extreme_risk" ELSE IF f.shrink THEN "lock_shrink"
            ELSE IF Breakout(f) THEN "breakout_expand" ELSE IF Impulse(f) THEN "impulse" ELSE IF Build(f) THEN "build"
            ELSE IF Base(f) THEN "active" ELSE "insufficient"
Subtype(f) == IF f.failed THEN "failed_breakout" ELSE IF f.shrink THEN "volume_lock_shrink" ELSE IF Breakout(f) THEN "breakout_volume"
              ELSE IF Build(f) /\ Base(f) THEN "volume_build" ELSE IF Impulse(f) THEN "volume_impulse"
              ELSE IF Core(f) /\ Base(f) /\ f.dist >= 0 THEN "mild_breakout" ELSE "none"

\* The risk flags.
RiskFlags(f) == {x \in {"failed_breakout", "extreme_volume", "overextended_ma25", "below_ma60", "low_liquidity"} :
    CASE x = "failed_breakout" -> f.failed [] x = "extreme_volume" -> Extreme(f) [] x = "overextended_ma25" -> f.dist >= 12
      [] x = "below_ma60" -> f.below60 [] OTHER -> f.amount < 20}

\* _score_signal
PhaseScore == [lock_shrink |-> 200, breakout_expand |-> 170, build |-> 150, impulse |-> 110, active |-> 70, extreme_risk |-> 30, failed_breakout |-> 0, insufficient |-> 0]
SubtypeScore == [volume_lock_shrink |-> 100, breakout_volume |-> 80, volume_build |-> 70, volume_impulse |-> 50, mild_breakout |-> 30, failed_breakout |-> 0, none |-> 0]
Penalty == [extreme_volume |-> 100, overextended_ma25 |-> 100, failed_breakout |-> 250, below_ma60 |-> 50, low_liquidity |-> 60]
LiquidityScore(f) == IF f.amount >= 100 THEN 100 ELSE IF f.amount >= 20 THEN 60 ELSE 20
Score(f) ==
    Max({0, Min({1000, (IF Core(f) THEN 140 ELSE 0) + (IF f.trend = "strong" THEN 100 ELSE 0) + Min({6 * f.slope, 60})
        + (IF f.vr5 >= 10 THEN Min({160, 80 + 12 * (f.vr5 - 10)}) ELSE 0) + (IF f.vr1 >= 10 THEN Min({90, 8 * (f.vr1 - 10) + 40}) ELSE 0)
        + PhaseScore[Phase(f)] + SubtypeScore[Subtype(f)] + LiquidityScore(f) + 50 - MapThenSumSet(LAMBDA x : Penalty[x], RiskFlags(f))})})

\* _calculate_risk_score, but for volatility and the distance to the long average.
RiskPenalty == [extreme_volume |-> 150, overextended_ma25 |-> 0, failed_breakout |-> 250, below_ma60 |-> 80, low_liquidity |-> 100]
Risk(f) == Max({0, Min({1000, 200 + Min({12 * (IF f.dist < 0 THEN -f.dist ELSE f.dist), 200}) + MapThenSumSet(LAMBDA x : RiskPenalty[x], RiskFlags(f))})})

Matched(f) == Subtype(f) \notin {"none", "failed_breakout"} /\ Score(f) >= MinScore

\* The stock with another average amount.
Next == \E a \in Amounts : frame' = [frame EXCEPT !.amount = a]
Spec == Init /\ [][Next]_vars

-------------------------------------------------------------------------------
(* The phase and the subtype of a signal, decided in two ladders of their own, *)
(* do not contradict each other: a calm phase never hides an extreme or failed *)
(* volume, and but for extreme volume a pullback or a breakout is called one   *)
(* in both.                                                                    *)
PhaseTells ==
    /\ frame.failed <=> Phase(frame) = "failed_breakout"
    /\ Extreme(frame) => Phase(frame) \in {"extreme_risk", "failed_breakout"}
    /\ Subtype(frame) = "volume_lock_shrink" /\ ~Extreme(frame) => Phase(frame) = "lock_shrink"
    /\ Subtype(frame) = "breakout_volume" /\ ~Extreme(frame) => Phase(frame) = "breakout_expand"

(* Where failed breakouts are asked for too, they rank behind every signal     *)
(* that matched by its score.                                                  *)
FailedRanksLast == frame.failed => Score(frame) < MinScore

(* A stock that trades more, all else equal, has no lower score, no higher     *)
(* risk, and stays matched.                                                    *)
LiquidityHelps ==
    [][frame'.amount > frame.amount /\ frame' = [frame EXCEPT !.amount = frame'.amount]
          => Score(frame') >= Score(frame) /\ Risk(frame') <= Risk(frame) /\ (Matched(frame) => Matched(frame'))]_vars
===============================================================================
