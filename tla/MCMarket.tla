------------------------------- MODULE MCMarket -------------------------------
(***************************************************************************)
(* One run for the market data: sync runs, their plans, the stocks table   *)
(* and its price limits, snapshots, cached indicators, answers about       *)
(* history and the worker's schedule.  The parts share no state here, so   *)
(* each behaviour picks the part it is about.                              *)
(***************************************************************************)
EXTENDS WorkerSchedule, TLC

CONSTANTS SyncSymbols, SyncDays, Sources, Windows, MaxRuns,     \* of the sync runs
          GapRequests, RunRequests,                         \* their requests in two kinds of behaviours
          PlanSymbols, PlanBatch, PlanKey, PlanTasks,       \* of the plans
          Shares, IndexDays, Enough, Lookback, Life,        \* of the cached indicators
          SnapDays, Slots, Opening, Weekend, SnapTasks,     \* of the snapshots
          Securities, BoardOf, MasterDays, Calendars        \* of the stocks table
ASSUME SyncAssumption ==
    /\ SyncDays \in Nat \ {0} /\ Sources # <<>> /\ Sources \in Seq({Sources[i] : i \in DOMAIN Sources}) /\ "" \notin Workers
    /\ \A win \in Windows : win[1] \in Nat \ {0} /\ win[2] \in Nat
    /\ \A r \in GapRequests \cup RunRequests :
          r.symbols \in Seq(SyncSymbols) /\ r.start \in Nat /\ r.back \in Nat /\ r.correction \in Nat /\ r.incremental \in BOOLEAN
ASSUME PlanAssumption == PlanSymbols \in Nat /\ PlanBatch \in Nat \ {0} /\ PlanKey \in Nat /\ PlanTasks \in Nat
ASSUME IndexAssumption == Life \in Nat
ASSUME SnapAssumption == Slots \in Nat \ {0} /\ Opening \in 1..Slots
ASSUME CalendarAssumption ==
    \A c \in Calendars : /\ \A r \in c : r.from \in Nat /\ r.days \in Nat
                         /\ \A q, r \in c : q.board = r.board /\ q.risk = r.risk /\ q.from = r.from => q = r

VARIABLES world,
          today, stocks, bars, state, run, syncing,         \* MarketSync
          listed, planned, plan, ended,                     \* SyncPlan
          calendar, warned, stock, named,             \* StockMaster
          day, slot, quote, auction, taken,                 \* Snapshots
          count, cache, index, job, torn,                   \* Indicators
          local, hist, dates, answer, guessed, lost,                 \* HistoryCache
          securities, rows, states,                         \* MarketViews
          up, usage, thread, answers                        \* ProviderUsage

syncVars == <<stocks, bars, state, run, syncing>>
planVars == <<listed, planned, plan, ended>>
masterVars == <<calendar, warned, stock, named>>
snapVars == <<day, slot, quote, auction, taken>>
indexVars == <<count, cache, index, job, torn>>
historyVars == <<local, hist, dates, answer, guessed, lost>>
loopVars == vars
viewVars == <<securities, rows, states>>
usageVars == <<up, usage, thread, answers>>
marketVars == <<world, today, syncVars, planVars, masterVars, snapVars, indexVars, historyVars, loopVars, viewVars, usageVars>>

R(symbols, start, incremental, back, correction) ==
    [symbols |-> symbols, start |-> start, incremental |-> incremental, back |-> back, correction |-> correction]
\* One security over three days, incremental with and without correction once each; two
\* securities with a repeated name, also by an explicit start, on one day.
TwoSources == <<"a", "b">>
SomeWindows == {<<1, 1>>, <<3, 3>>}
OneSecurity == {R(<<"s">>, 0, TRUE, 2, 0), R(<<"s">>, 0, TRUE, 2, 2)}
TwoSecurities == {R(<<"s", "t", "s">>, 0, FALSE, 1, 0), R(<<"t">>, 1, FALSE, 1, 0)}
Sync == INSTANCE MarketSync WITH Symbols <- SyncSymbols, Days <- SyncDays, Procs <- Workers,
                                    Requests <- GapRequests \cup RunRequests, worker <- syncing
Once == \A i, j \in DOMAIN run' : run'[i].req = run'[j].req => i = j
Of(requests) == /\ \A i \in DOMAIN run' : run'[i].req \in requests
                /\ \A s \in stocks' : \E r \in requests : \E i \in DOMAIN r.symbols : s = r.symbols[i]
Plan == INSTANCE SyncPlan WITH MaxSymbol <- PlanSymbols, BatchSize <- PlanBatch, KeyLen <- PlanKey, MaxTasks <- PlanTasks, task <- planned

Rule(board, risk, from, to, rate, days) ==
    [board |-> board, risk |-> risk, from |-> from, to |-> to, rate |-> rate, days |-> days, active |-> TRUE]
SomeRules == {Rule("main", FALSE, 1, 0, 10, 0), Rule("main", TRUE, 1, 2, 5, 0), Rule("star", FALSE, 1, 0, 20, 2),
              Rule("star", FALSE, 3, 0, 20, 1), Rule("star", TRUE, 2, 0, 20, 2)}
SomeCalendars == SUBSET SomeRules
TwoBoards == "m" :> "main" @@ "n" :> "star"
Master == INSTANCE StockMaster WITH Symbols <- Securities, Days <- MasterDays
Snaps == INSTANCE Snapshots WITH Days <- SnapDays, Window <- Opening, Tasks <- SnapTasks, task <- taken
Index == INSTANCE Indicators WITH Symbols <- Shares, Procs <- Workers, Days <- IndexDays, bars <- count
History == INSTANCE HistoryCache WITH Days <- 4, Windows <- {<<2, 2>>, <<1, 3>>}, Holidays <- {2}, HistLife <- 2, DatesLife <- 2
TwoIntervals == "sync" :> 2 @@ "alerts" :> 3
Types == <<"stock", "bond">>
Views == INSTANCE MarketViews WITH Backend <- "sqlite", MaxSymbol <- 2, TypeOf <- Types, Sources <- {"a", "b"}, Adjusts <- {"", "qfq"},
             Days <- 2, PageSizes <- {1, 2}, MaxBars <- 2, stocks <- securities, bars <- rows
ViewsMySQL == INSTANCE MarketViews WITH Backend <- "mysql", MaxSymbol <- 3, TypeOf <- <<"stock", "bond", "stock">>, Sources <- {"a"},
                  Adjusts <- {"", "qfq"}, Days <- 2, PageSizes <- {1, 2}, MaxBars <- 2, stocks <- securities, bars <- rows
Usage == INSTANCE ProviderUsage WITH Providers <- <<"a", "b">>, Threads <- {"x", "y"}, Sample <- 2, MaxAnswers <- 1

MarketInit == /\ world \in {"gaps", "runs", "plan", "master", "snaps", "index", "history", "schedule", "views", "views_mysql", "usage"}
              /\ Sync!Init /\ Plan!Init /\ Master!Init /\ Snaps!Init /\ Index!Init /\ History!Init /\ Init
              /\ (IF world = "views_mysql" THEN ViewsMySQL!Init ELSE Views!Init) /\ Usage!Init
              /\ world # "master" => calendar = {} /\ warned = {}

MarketNext ==
    \/ world = "gaps" /\ Sync!Next /\ Of(GapRequests) /\ Once /\ UNCHANGED <<world, planVars, masterVars, snapVars, indexVars, historyVars, loopVars, viewVars, usageVars>>
    \/ world = "runs" /\ Sync!Next /\ Of(RunRequests) /\ today' = 1 /\ UNCHANGED <<world, planVars, masterVars, snapVars, indexVars, historyVars, loopVars, viewVars, usageVars>>
    \/ world = "plan" /\ Plan!Next /\ UNCHANGED <<world, today, syncVars, masterVars, snapVars, indexVars, historyVars, loopVars, viewVars, usageVars>>
    \/ world = "master" /\ Master!Next /\ UNCHANGED <<world, today, syncVars, planVars, snapVars, indexVars, historyVars, loopVars, viewVars, usageVars>>
    \/ world = "snaps" /\ Snaps!Next /\ UNCHANGED <<world, today, syncVars, planVars, masterVars, indexVars, historyVars, loopVars, viewVars, usageVars>>
    \/ world = "index" /\ Index!Next /\ UNCHANGED <<world, syncVars, planVars, masterVars, snapVars, historyVars, loopVars, viewVars, usageVars>>
    \/ world = "history" /\ History!Next /\ UNCHANGED <<world, syncVars, planVars, masterVars, snapVars, indexVars, loopVars, viewVars, usageVars>>
    \/ world = "schedule" /\ Next /\ UNCHANGED <<world, today, syncVars, planVars, masterVars, snapVars, indexVars, historyVars, viewVars, usageVars>>
    \/ world = "views" /\ Views!Next /\ UNCHANGED <<world, today, syncVars, planVars, masterVars, snapVars, indexVars, historyVars, loopVars, usageVars>>
    \/ world = "views_mysql" /\ ViewsMySQL!Next /\ UNCHANGED <<world, today, syncVars, planVars, masterVars, snapVars, indexVars, historyVars, loopVars, usageVars>>
    \/ world = "usage" /\ Usage!Next /\ UNCHANGED <<world, today, syncVars, planVars, masterVars, snapVars, indexVars, historyVars, loopVars, viewVars>>

MarketSpec == MarketInit /\ [][MarketNext]_marketVars

-------------------------------------------------------------------------------
(* A sync run that ended accounts for each of its symbols, no state claims     *)
(* coverage its symbol's bars do not have, and an incremental sync that nobody *)
(* disturbs makes no new gap.                                                  *)
SyncHonest ==
    /\ [](world \in {"gaps", "runs"} => Sync!RunAccounted /\ Sync!StateWithinBars)
    /\ Sync!NoGapMade

(* The tasks of a plan cover its symbols, each with a key of its own, and the  *)
(* plan is there as a whole or says that it is not.                            *)
PlanSound == [](world = "plan" => Plan!PlanCovers /\ Plan!ChildrenApart) /\ Plan!PlanWhole

(* The price limit of a security is that of the rule in force, its first days  *)
(* have none, and what the name warns of is remembered.                        *)
LimitRulesSound == world = "master" => Master!RuleInForce /\ Master!UnlimitedFirst /\ Master!NamedByWarning

(* Snapshots are kept under days of the window they were taken in, and the     *)
(* latest one is the newest.                                                   *)
SnapshotsSound == world = "snaps" => Snaps!RowsFromWindow /\ Snaps!LatestIsNewest

(* The index of cached indicators covers what the cache holds.                 *)
IndexCovers == world = "index" => Index!IndexCovers

(* Answers about history, about the tables and about the providers agree with  *)
(* what is stored: an outage or a guessed calendar passes, bars read stay,     *)
(* pages are whole, summaries add up, a usage is that of the caller's answer.  *)
AnswersHonest ==
    /\ History!OutagePasses /\ History!BarsStay /\ History!GuessEnds
    /\ [](world = "views" => Views!SummaryAgrees /\ Views!PagesWhole /\ Views!StatesAddUp)
    /\ [](world = "views_mysql" => ViewsMySQL!SummaryAgrees /\ ViewsMySQL!PagesWhole)
    /\ [](world = "usage" => Usage!UsageIsOwn /\ Usage!ReadyHasBars)
===============================================================================
