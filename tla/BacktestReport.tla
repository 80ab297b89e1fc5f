---------------------------- MODULE BacktestReport ----------------------------
(***************************************************************************)
(* The report of a backtest (application/backtest_api_service.py): the     *)
(* trades and the skipped trades of the strategy are filtered by the rules *)
(* of execution, counted, grouped and judged.  Returns are in percent; the *)
(* parts of a report are functions of what it is made from.                *)
(***************************************************************************)
EXTENDS Integers, Sequences, FiniteSets, SequencesExt, FiniteSetsExt, Functions

CONSTANTS Trades,     \* trades: [valid, flag, ret, subtype, days]; subtype "" is one that is missing
          Skips,      \* skipped trades: [reason, dates]
          Fees,       \* fee and slippage together, in basis points
          Benches,    \* benchmark returns
          Bars,       \* numbers of closes of the benchmark, at least two
          MaxTrades   \* bound on trades and skipped trades

VARIABLES trades,   \* raw trades in order
          skipped,  \* skipped trades in order
          options   \* [guard, fee, bench, bars]

vars == <<trades, skipped, options>>

Reasons == {"invalid_price", "suspended", "limit_up", "limit_down"}
\* Signal and entry dates, as _t_plus_one_stats tells them apart.
Dates == {"next", "same", "unknown"}

Init == trades = <<>> /\ skipped = <<>> /\ options \in [guard : BOOLEAN, fee : Fees, bench : Benches, bars : Bars]

\* _constraint_reason; "" for a trade that is kept.
SlipConstraint(t) == IF ~options.guard THEN "" ELSE IF ~t.valid THEN "invalid_price" ELSE IF t.flag = "none" THEN "" ELSE t.flag
Constraint(t) == IF ~t.valid THEN "invalid_price" ELSE IF options.guard /\ t.flag # "none" THEN t.flag ELSE ""

\* _skipped_reason
SkippedReason(s) == IF s.reason = "invalid_entry_price" THEN "invalid_price" ELSE s.reason

\* _apply_trade_constraints
Kept == SelectSeq(trades, LAMBDA t : Constraint(t) = "")
ReasonCount(r) == Cardinality({i \in DOMAIN trades : Constraint(trades[i]) = r}) + Cardinality({i \in DOMAIN skipped : SkippedReason(skipped[i]) = r})
Excluded == Len(trades) - Len(Kept) + Len(skipped)

\* _summarize_returns and _build_equity_curve, exactly: equity is scaled so that
\* all of its points share a denominator.
Curve(r, n) == FoldLeftDomain(LAMBDA e, i : e * (IF i <= n THEN 100 + r[i] ELSE 100), 1, r)
Peak(r, n) == Max({Curve(r, i) : i \in 0..n})
DrawdownAtLeast(r, percent) == \E n \in 0..Len(r) : 100 * (Peak(r, n) - Curve(r, n)) >= percent * Peak(r, n)
KeptReturns == [i \in DOMAIN Kept |-> Kept[i].ret]
Wins(r) == Cardinality({i \in DOMAIN r : r[i] > 0})
TotalReturn(r) == (Curve(r, Len(r)) * 100) \div Curve(r, 0) - 100
Net == 100 * TotalReturn(KeptReturns) - 2 * options.fee * Len(Kept)

\* _risk_level: 2 for high, 1 for medium, 0 for low.
RiskLevel == LET r == KeptReturns IN
    IF Len(r) < 3 \/ DrawdownAtLeast(r, 25) \/ 100 * Wins(r) < 35 * Len(r) THEN 2
    ELSE IF DrawdownAtLeast(r, 12) \/ 2 * Wins(r) < Len(r) THEN 1 ELSE 0

\* _risk_attribution: the highest of its factors.
LossLevel(r) == LET loss == Len(r) - Wins(r) IN IF 10 * loss > 6 * Len(r) THEN 2 ELSE IF 10 * loss > 4 * Len(r) THEN 1 ELSE 0
HighestRisk == LET r == KeptReturns IN
    Max({IF Len(r) < 3 THEN 2 ELSE IF Len(r) < 10 THEN 1 ELSE 0,
         IF DrawdownAtLeast(r, 25) THEN 2 ELSE IF DrawdownAtLeast(r, 12) THEN 1 ELSE 0,
         IF Excluded >= 3 THEN 2 ELSE IF Excluded > 0 THEN 1 ELSE 0,
         IF 2 * options.fee * Len(r) > 200 THEN 1 ELSE 0,
         IF Net < 100 * options.bench THEN 2 ELSE 0,
         LossLevel(r)})

\* _signal_attribution and _holding_day_distribution: one group for each value.
Label(t, field) == IF field = "days" THEN t.days ELSE IF t.subtype = "" THEN "unknown" ELSE t.subtype
Group(name, its) == LET r == [i \in DOMAIN its |-> its[i].ret]
                    IN [name |-> name, count |-> Len(its), wins |-> Wins(r), sum |-> FoldFunction(+, 0, r)]
Groups(field) == {Group(v, SelectSeq(Kept, LAMBDA t : Label(t, field) = v)) : v \in {Label(Kept[i], field) : i \in DOMAIN Kept}}

\* _t_plus_one_stats over the trades, which enter the next day, and the skipped.
TPlusOne(kind) == (IF kind = "next" THEN Len(trades) ELSE 0) + Cardinality({i \in DOMAIN skipped : skipped[i].dates = kind})

\* _curve_from_closes: the bar of each of n points of a benchmark of m closes;
\* Python rounds half to even.
Rounded(a, b) == LET q == a \div b IN IF 2 * (a % b) > b \/ (2 * (a % b) = b /\ q % 2 = 1) THEN q + 1 ELSE q
Sampled(m, n) == [k \in 1..n |-> Min({m - 1, Rounded((k - 1) * (m - 1), n - 1)}) + 1]

Points == Max({2, Len(Kept) + 1})

\* The strategy ends a trade or skips one; the same result asked with other options.
Trade(t) == Len(trades) + Len(skipped) < MaxTrades /\ trades' = Append(trades, t) /\ UNCHANGED <<skipped, options>>
Skip(s) == Len(trades) + Len(skipped) < MaxTrades /\ skipped' = Append(skipped, s) /\ UNCHANGED <<trades, options>>
Ask(guard) == options' = [options EXCEPT !.guard = guard] /\ UNCHANGED <<trades, skipped>>

Next == (\E t \in Trades : Trade(t)) \/ (\E s \in Skips : Skip(s)) \/ (\E guard \in BOOLEAN : Ask(guard))
Spec == Init /\ [][Next]_vars

-------------------------------------------------------------------------------
(* Every candidate is accounted for once: kept, or excluded for one reason,    *)
(* and entered the next day, the same day or unknown.                          *)
CandidatesCounted ==
    /\ Len(Kept) + Excluded = Len(trades) + Len(skipped)
    /\ MapThenSumSet(ReasonCount, Reasons) = Excluded
    /\ MapThenSumSet(TPlusOne, Dates) = Len(trades) + Len(skipped)

(* However trades are grouped, the groups hold every kept trade, every win and *)
(* the whole of the returns.                                                   *)
GroupsWhole ==
    LET r == KeptReturns
        Whole(groups) == /\ MapThenSumSet(LAMBDA g : g.count, groups) = Len(r)
                         /\ MapThenSumSet(LAMBDA g : g.wins, groups) = Wins(r)
                         /\ MapThenSumSet(LAMBDA g : g.sum, groups) = FoldFunction(+, 0, r)
    IN Whole(Groups("subtype")) /\ Whole(Groups("days"))

(* The two judgements of one report agree in that the highest factor of the    *)
(* risk attribution is never below the risk level, whose limits are others.    *)
RisksAgree == HighestRisk >= RiskLevel

(* The curve of the benchmark begins with its first close and ends with its    *)
(* last one, however many points the portfolio has, and never goes back.       *)
BenchmarkSpans == LET at == Sampled(options.bars, Points)
                  IN at[1] = 1 /\ at[Points] = options.bars /\ \A k \in 1..Points - 1 : at[k] <= at[k + 1]

(* The guard only takes away: the trades kept with it are among those kept     *)
(* without, and a trade without a valid price is kept with neither.            *)
GuardOnlyRemoves ==
    [][options.guard # options'.guard =>
         LET with == IF options.guard THEN Kept ELSE Kept'
             without == IF options.guard THEN Kept' ELSE Kept
         IN /\ Len(with) <= Len(without) /\ ToSet(with) \subseteq ToSet(without)
            /\ \A i \in DOMAIN without : without[i].valid]_vars
===============================================================================
