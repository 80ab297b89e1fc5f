------------------------------- MODULE MCSignals -------------------------------
(***************************************************************************)
(* One run for the strategies: their life, their scans, their signals and  *)
(* the tests of them on history.  The parts share no state here, so each   *)
(* behaviour picks the part it is about.                                   *)
(***************************************************************************)
EXTENDS StrategyLifecycle, TLC

CONSTANTS Original, Threads, Sizes, Cap, MaxScans,         \* of the scans
          Prices, Values, Trends, Flags, Closes, Holding   \* of the convertible bonds
ASSUME ScanAssumption == Original \in Nat /\ Sizes \subseteq Nat /\ Cap \in Nat
ASSUME BondAssumption == Prices \subseteq Nat /\ Values \subseteq Nat /\ Closes \subseteq Nat /\ Holding \in Nat \ {0}

VARIABLES world,
          localOnly, limit, thread, scans,            \* ScanRuns
          item, usage,                                \* ScanExplanation
          day, level, bars, auction, signals, matched, found, \* FirstLimitUp
          cand, snapshot,                             \* FirstLimitScore
          stock, daily,                               \* LimitUpReturn
          bond, step, entry, exit, reason, seen,      \* ConvertibleBond
          trades, skipped, options,                   \* BacktestReport
          frame                                       \* Strategy2560

SomeStrategies == {[code |-> "2560", source |-> "custom"], [code |-> "2560", source |-> "builtin"], [code |-> "LIMIT_UP_RETURN", source |-> "builtin"]}
lifeVars == vars
scanVars == <<localOnly, limit, thread, scans>>
explainVars == <<item, usage>>
firstVars == <<day, level, bars, auction, signals, matched, found>>
scoreVars == <<cand, snapshot>>
returnVars == <<stock, daily>>
bondVars == <<bond, step, entry, exit, reason, seen>>
reportVars == <<trades, skipped, options>>
signalVars == <<world, lifeVars, scanVars, explainVars, firstVars, scoreVars, returnVars, bondVars, reportVars, frame>>

\* One scan at a time, as in a worker, and several in one process.
Scans == INSTANCE ScanRuns WITH Threads <- {"w"}
ScansOverlap == INSTANCE ScanRuns
Explain == INSTANCE ScanExplanation WITH Totals <- {0, 60, 80, 100}, Risks <- {0, 50, 70, 75}
First == INSTANCE FirstLimitUp WITH Stocks <- {1}, Days <- 6, Moves <- {0, 1}, Lookback <- 2, MinBars <- 4, Select <- 1
FirstTwo == INSTANCE FirstLimitUp WITH Stocks <- {1, 2}, Days <- 2, Moves <- {0, 1}, Lookback <- 1, MinBars <- 2, Select <- 1

Frame(exact, position) == [exact |-> exact, high |-> TRUE, position |-> position, amount |-> 20, turnover |-> 100, word |-> FALSE, size |-> 500, volume |-> 20]
Sector(limits, rising, average) == [limits |-> limits, rising |-> rising, average |-> average]
Market(rising) == [rising |-> rising, above |-> rising, up |-> rising \div 15, down |-> 3, total |-> 100]
Past(again) == [count |-> 2, opened |-> 2, closed |-> 2, again |-> again, follow |-> 3]
Snapshot(open, share, book, seal, sold) ==
    [open |-> open, matched |-> share, book |-> book, seal |-> seal, sold |-> sold, bought |-> 1, stable |-> 0]
Scores == INSTANCE FirstLimitScore WITH
    Frames <- {Frame("hit", 100), Frame("no", 80)}, Markets <- {Market(60), Market(30)}, Pasts <- {Past(0), Past(2)}, Flags <- {0},
    Sectors <- {Sector(n, r, a) : n \in {0, 1, 3}, r \in {30, 60}, a \in {-1, 2}},
    Auctions <- {Snapshot(o, m, b, seal, q) : o \in {20, 95}, m \in {1, 3, 9}, b \in {-1, 90, 130}, seal \in {"", "buy"}, q \in {0, 5}},
    auction <- snapshot

Bar(low, close, high, ratio) == [low |-> low, close |-> close, high |-> high, ratio |-> ratio]
Return == INSTANCE LimitUpReturn WITH
    Identities <- {[type |-> "stock", st |-> FALSE, board |-> "main"], [type |-> "stock", st |-> TRUE, board |-> "main"],
                   [type |-> "stock", st |-> FALSE, board |-> "star"], [type |-> "stock", st |-> FALSE, board |-> "other"], [type |-> "fund", st |-> FALSE, board |-> "main"]},
    Bars <- {Bar(110, 110, 110, 12), Bar(100, 105, 112, 10), Bar(98, 103, 108, 8), Bar(90, 96, 100, 10), Bar(94, 105, 106, 8), Bar(107, 114, 115, 12), Bar(121, 121, 121, 12), Bar(120, 120, 120, 12)},
    MaxAge <- 3, MinBars <- 3, Days <- 5, bars <- daily
Bond == INSTANCE ConvertibleBond

Kind(valid, flag, ret, subtype, days) == [valid |-> valid, flag |-> flag, ret |-> ret, subtype |-> subtype, days |-> days]
Report == INSTANCE BacktestReport WITH
    Trades <- {Kind(TRUE, "none", 10, "deep", 1), Kind(TRUE, "none", 10, "", 3), Kind(TRUE, "none", 0, "deep", 3), Kind(TRUE, "none", -1, "", 1), Kind(TRUE, "none", -30, "deep", 1),
               Kind(TRUE, "limit_up", 10, "deep", 1), Kind(TRUE, "suspended", 0, "", 1), Kind(FALSE, "none", 0, "deep", 1), Kind(FALSE, "limit_down", 0, "", 3)},
    Skips <- {[reason |-> "suspended", dates |-> "next"], [reason |-> "invalid_entry_price", dates |-> "next"], [reason |-> "limit_down", dates |-> "unknown"], [reason |-> "invalid_price", dates |-> "same"]},
    Fees <- {0, 40}, Benches <- {-5, 8}, Bars <- {2, 7}, MaxTrades <- 3
Band == INSTANCE Strategy2560 WITH Ratios5 <- {9, 10, 24}, Ratios1 <- {7, 14, 30}, Distances <- {-1, 4, 13}, Amounts <- {10, 50, 200}, MinScore <- 550
Quiet == [trend |-> "none", shrink |-> FALSE, fresh |-> FALSE, crossed |-> FALSE, built |-> FALSE, failed |-> FALSE,
          vr5 |-> 9, vr1 |-> 7, dist |-> -1, slope |-> 0, below60 |-> FALSE, amount |-> 10]

SignalInit ==
    /\ world \in {"life", "scans", "scans_overlap", "explain", "first", "first_two", "score", "return", "bond", "report", "band"}
    /\ Init /\ (world # "life" => row = Created(CHOOSE s \in Strategies : TRUE))
    /\ IF world = "scans_overlap" THEN ScansOverlap!Init ELSE Scans!Init
    /\ IF world = "explain" THEN Explain!Init
       ELSE item = [total |-> 0, risk |-> 0, others |-> 0] /\ usage = [quality |-> "primary", fallback |-> FALSE]
    /\ IF world = "first_two" THEN FirstTwo!Init ELSE First!Init
    /\ IF world = "score" THEN Scores!Init
       ELSE /\ cand = [frame |-> Frame("hit", 100), sector |-> Sector(0, 30, -1), market |-> Market(60), past |-> Past(0), flags |-> 0]
            /\ snapshot = Snapshot(20, 3, 90, "", 0)
    /\ Return!Init /\ (world # "return" => stock.board = "star")
    /\ IF world = "bond" THEN Bond!Init
       ELSE /\ bond = [price |-> 102, value |-> 80, trend |-> "none", flags |-> {}, size |-> 1, amount |-> 10]
            /\ step = "listed" /\ entry = 0 /\ exit = Bond!None /\ reason = "" /\ seen = <<>>
    /\ Report!Init /\ (world # "report" => options = [guard |-> TRUE, fee |-> 0, bench |-> 8, bars |-> 2])
    /\ IF world = "band" THEN Band!Init ELSE frame = Quiet

SignalNext ==
    \/ world = "life" /\ Next /\ UNCHANGED <<world, scanVars, explainVars, firstVars, scoreVars, returnVars, bondVars, reportVars, frame>>
    \/ world = "scans" /\ Scans!Next /\ UNCHANGED <<world, lifeVars, explainVars, firstVars, scoreVars, returnVars, bondVars, reportVars, frame>>
    \/ world = "scans_overlap" /\ ScansOverlap!Next /\ UNCHANGED <<world, lifeVars, explainVars, firstVars, scoreVars, returnVars, bondVars, reportVars, frame>>
    \/ world = "explain" /\ Explain!Next /\ UNCHANGED <<world, lifeVars, scanVars, firstVars, scoreVars, returnVars, bondVars, reportVars, frame>>
    \/ world = "first" /\ First!Next /\ UNCHANGED <<world, lifeVars, scanVars, explainVars, scoreVars, returnVars, bondVars, reportVars, frame>>
    \/ world = "first_two" /\ FirstTwo!Next /\ UNCHANGED <<world, lifeVars, scanVars, explainVars, scoreVars, returnVars, bondVars, reportVars, frame>>
    \/ world = "score" /\ Scores!Next /\ UNCHANGED <<world, lifeVars, scanVars, explainVars, firstVars, returnVars, bondVars, reportVars, frame>>
    \/ world = "return" /\ Return!Next /\ UNCHANGED <<world, lifeVars, scanVars, explainVars, firstVars, scoreVars, bondVars, reportVars, frame>>
    \/ world = "bond" /\ Bond!Next /\ UNCHANGED <<world, lifeVars, scanVars, explainVars, firstVars, scoreVars, returnVars, reportVars, frame>>
    \/ world = "report" /\ Report!Next /\ UNCHANGED <<world, lifeVars, scanVars, explainVars, firstVars, scoreVars, returnVars, bondVars, frame>>
    \/ world = "band" /\ Band!Next /\ UNCHANGED <<world, lifeVars, scanVars, explainVars, firstVars, scoreVars, returnVars, bondVars, reportVars>>

SignalSpec == SignalInit /\ [][SignalNext]_signalVars

-------------------------------------------------------------------------------
(* A strategy that was switched off starts no scan; scans one after the other  *)
(* put back the settings they borrow, and a sample is not traded.              *)
RunsSound ==
    /\ OffStartsNothing
    /\ [](world = "scans" => Scans!SettingsRestored /\ Scans!SampleNotTraded)
    /\ [](world = "scans_overlap" => ScansOverlap!SampleNotTraded)

(* docs/strategy_data_center_refactor.md:61: a scan that asked for local data  *)
(* only never calls a provider, whatever runs beside it.                       *)
LocalOnlyScans == world = "scans_overlap" => ScansOverlap!LocalOnlyScans

(* A better input never ranks a candidate lower: a degraded source, a weaker   *)
(* sector, a smaller matched amount, a dearer bond or a thinner turnover does  *)
(* not help.  The parts of a score make its total, and what a verdict, a stage *)
(* or a phase claims agrees with the numbers beside it.                        *)
ScoresSound ==
    /\ Explain!DegradedNotBetter /\ Explain!BetterNotBehind
    /\ Scores!MoreMatchedConfirms /\ Scores!StrongerSectorHelps
    /\ Bond!CheaperRanksFirst /\ Band!LiquidityHelps
    /\ [](world = "explain" => Explain!TaskClaims)
    /\ [](world = "score" => Scores!PartsMakeTotal)
    /\ [](world = "return" => Return!StagesRank)
    /\ [](world = "band" => Band!PhaseTells /\ Band!FailedRanksLast)

(* First boards of a stock lie apart, a confirmed signal survives the choice   *)
(* of the best, the latest event of a stock counts, and a pullback that broke  *)
(* stays broken.                                                               *)
LimitUpSound ==
    /\ Return!BrokenStaysBroken
    /\ [](world = "first" => First!FirstBoardsApart)
    /\ [](world = "first_two" => FirstTwo!ConfirmedKept)
    /\ [](world = "return" => Return!LatestCounts)

(* A convertible bond is sold at the first rule that applies.                  *)
BondSoldAtFirst == world = "bond" => Bond!SoldAtFirst

(* The guard only removes trades from a report; its candidates, groups, risk   *)
(* judgements and benchmark agree with one another.                            *)
ReportSound ==
    /\ Report!GuardOnlyRemoves
    /\ [](world = "report" => Report!CandidatesCounted /\ Report!GroupsWhole /\ Report!RisksAgree /\ Report!BenchmarkSpans)
===============================================================================
