------------------------------- MODULE MCAccounts -------------------------------
(***************************************************************************)
(* One run for what is kept: users and their check-ins, strategy pools and *)
(* their backtests, picks, backups and the move of the records to MySQL.   *)
(* The parts share no state here, so each behaviour picks the part it is   *)
(* about and the others stay at their initial state.                       *)
(***************************************************************************)
EXTENDS Accounts, Sequences, TLC  \* on SQLite, roles and activity

CONSTANTS Units, FewOps,               \* tenants, and the bound on requests, of the other two accounts
          MaxDays, MaxPosts,           \* of the check-ins
          Codes, Prices, Results,      \* of the pool
          Days, Holdings, Positions, Scans, Market, \* of its backtest
          Default, PickKeys, Outcomes, Clients, MaxId, MaxReports, \* of the picks
          Retention, MaxData, MaxKey, MaxSaves,  \* of the backups
          Rows, Strategies, OldAux, MaxRows, MaxApplies \* of the migration
ASSUME UnitsAssumption == Units \subseteq Nat \ {0} /\ Open \subseteq Units
ASSUME CheckInAssumption == MaxDays \in Nat \ {0}
ASSUME TestAssumption ==
    /\ Days \in Nat /\ Holdings \subseteq Nat /\ Positions \subseteq Nat
    /\ \A s \in Scans : /\ s \in Seq({s[i] : i \in DOMAIN s})
                         /\ \A i \in DOMAIN s : s[i].risk \in Int /\ \A m \in Market : s[i].code \in DOMAIN m
    /\ \A m \in Market : \A c \in DOMAIN m :
          m[c] \in [1..Days -> [volume : Nat, open : Nat, high : Nat, low : Nat, close : Nat, pct : Int]]
ASSUME MoveAssumption == \A a, b \in OldAux : a.table = b.table /\ a.key = b.key => a = b
ASSUME BackupAssumption == Retention \in Nat \ {0} /\ MaxKey \in Nat \ {0}

VARIABLES world,
          myUser, myBound, myDflt, myTenant, mySession, myReq, myBegun, myRaced, myRebound, myRefused, \* Accounts on MySQL
          points, last, today, post, posts, paid, torn,                                          \* CheckIn
          pool, left,                                                                            \* StrategyPool: pool
          holding, positions, source, bars, day, picks, scanned, trades, skipped, drawdown,      \* StrategyPool: backtest
          records, lastId, call, reports, actor,                                                 \* PickRecords
          data, edits, key, legacy, files, second, saves, upload, restore, rotating, lostKey,    \* Backups
          rows, target, aux, applied, result                                                     \* Migration

accountVars == vars
mysqlVars == <<myUser, myBound, myDflt, myTenant, mySession, myReq, myBegun, myRaced, myRebound, myRefused>>
checkVars == <<points, last, today, post, posts, paid, torn>>
poolVars == <<pool, left>>
backtestVars == <<holding, positions, source, bars, day, picks, scanned, trades, skipped, drawdown>>
pickVars == <<records, lastId, call, reports, actor>>
backupVars == <<data, edits, key, legacy, files, second, saves, upload, restore, rotating, lostKey>>
moveVars == <<rows, target, aux, applied, result>>
keptVars == <<world, accountVars, mysqlVars, checkVars, poolVars, backtestVars, pickVars, backupVars, moveVars>>

\* Bindings with two requests, then all kinds of requests on MySQL.
Bindings == INSTANCE Accounts WITH Backend <- "sqlite", Tenants <- Units, Open <- Units,
             Ops <- {"create", "bind", "unbind"}, MaxOps <- FewOps
AllMySQL == INSTANCE Accounts WITH Backend <- "mysql", Tenants <- Units,
             Ops <- {"create", "role", "active", "bind", "unbind", "newtenant", "tenant"}, MaxOps <- FewOps,
             user <- myUser, bound <- myBound, dflt <- myDflt, tenant <- myTenant, session <- mySession, req <- myReq,
             begun <- myBegun, raced <- myRaced, rebound <- myRebound, refused <- myRefused
CheckIns == INSTANCE CheckIn
Pool == INSTANCE StrategyPool

Bar(o, h, l, c, pct) == [volume |-> 1, open |-> o, high |-> h, low |-> l, close |-> c, pct |-> pct]
NoBar == [Bar(0, 0, 0, 0, 0) EXCEPT !.volume = 0]
SomeBars == {NoBar, Bar(2, 3, 1, 2, 50), Bar(3, 3, 3, 3, 1000), Bar(1, 1, 1, 1, -1000), Bar(2, 3, 2, 3, 300), Bar(0, 0, 0, 0, 0)}
SomeMarkets == {("x" :> <<NoBar, a, b>>) @@ ("growth" :> <<Bar(2, 3, 1, 2, 1000), Bar(2, 3, 1, 1, -1000), Bar(2, 3, 2, 3, 1700)>>)
                @@ ("" :> <<NoBar, NoBar, NoBar>>) : a, b \in SomeBars}
Pick(c, r) == [code |-> c, risk |-> r]
SomeScans == {<<>>, <<Pick("x", 2)>>, <<Pick("x", 2), Pick("growth", 1)>>, <<Pick("growth", 1), Pick("x", 1)>>,
              <<Pick("", 0), Pick("growth", 3), Pick("x", 2)>>}

Records == INSTANCE PickRecords WITH Tenants <- Units, Keys <- PickKeys, picks <- records
Zips == INSTANCE Backups
Row(k, kind, code, extra) == [key |-> k, kind |-> kind, strategy |-> code, extra |-> extra]
SomeRows == {Row("a", "ok", "s", "none"), Row("a", "ok", "t", "price"), Row("a", "archived", "s", "price"), Row("b", "ok", "t", "none"), Row("b", "invalid", "s", "none")}
SomeAux == {[table |-> t, key |-> k] : t \in {"strategies"}, k \in {"s", "t"}}
           \cup {[table |-> "ui_settings", key |-> "x"], [table |-> "saved_filters", key |-> "x"], [table |-> "operation_logs", key |-> "undated"]}
Move == INSTANCE Migration WITH source <- rows

FixedTest == /\ holding = (CHOOSE h \in Holdings : TRUE) /\ positions = (CHOOSE p \in Positions : TRUE)
             /\ source = "local" /\ bars = CHOOSE m \in Market : TRUE
KeptInit == /\ world \in {"roles", "bindings", "all_mysql", "checkins", "pool", "backtest", "picks", "backups", "migration"}
            /\ (IF world = "bindings" THEN Bindings!Init ELSE Init) /\ AllMySQL!Init
            /\ CheckIns!Init /\ Pool!PoolInit
            /\ Pool!TestInit /\ (world # "backtest" => FixedTest)
            /\ Records!Init /\ Zips!Init /\ Move!Init /\ (world # "migration" => aux = {})

KeptNext ==
    \/ world = "roles" /\ Next /\ UNCHANGED <<world, mysqlVars, checkVars, poolVars, backtestVars, pickVars, backupVars, moveVars>>
    \/ world = "bindings" /\ Bindings!Next /\ UNCHANGED <<world, mysqlVars, checkVars, poolVars, backtestVars, pickVars, backupVars, moveVars>>
    \/ world = "all_mysql" /\ AllMySQL!Next /\ UNCHANGED <<world, accountVars, checkVars, poolVars, backtestVars, pickVars, backupVars, moveVars>>
    \/ world = "checkins" /\ CheckIns!Next /\ UNCHANGED <<world, accountVars, mysqlVars, poolVars, backtestVars, pickVars, backupVars, moveVars>>
    \/ world = "pool" /\ Pool!PoolNext /\ UNCHANGED <<world, accountVars, mysqlVars, checkVars, backtestVars, pickVars, backupVars, moveVars>>
    \/ world = "backtest" /\ Pool!TestNext /\ UNCHANGED <<world, accountVars, mysqlVars, checkVars, poolVars, pickVars, backupVars, moveVars>>
    \/ world = "picks" /\ Records!Next /\ UNCHANGED <<world, accountVars, mysqlVars, checkVars, poolVars, backtestVars, backupVars, moveVars>>
    \/ world = "backups" /\ Zips!Next /\ UNCHANGED <<world, accountVars, mysqlVars, checkVars, poolVars, backtestVars, pickVars, moveVars>>
    \/ world = "migration" /\ Move!Next /\ UNCHANGED <<world, accountVars, mysqlVars, checkVars, poolVars, backtestVars, pickVars, backupVars>>

KeptSpec == KeptInit /\ [][KeptNext]_keptVars

-------------------------------------------------------------------------------
(* On SQLite a user keeps a binding, and at most one of them is the default; on *)
(* MySQL so it is too, an administrator remains and refused sessions stay so.   *)
AccountsSound == /\ IF world = "bindings" THEN Bindings!BindingKept /\ Bindings!OneDefault ELSE BindingKept /\ OneDefault
                 /\ world = "all_mysql" => /\ AllMySQL!AdminRemains /\ AllMySQL!RefusedStaysRefused
                                           /\ AllMySQL!BindingKept /\ AllMySQL!OneDefault

(* A day's check-in is paid once.                                              *)
CheckInPaidOnce == world = "checkins" => CheckIns!PaidOncePerDay

(* A pool keeps what was added first; a backtest of it accounts for each pick, *)
(* sells on a later day, trades within the price limits and measures the       *)
(* deepest fall.                                                               *)
PoolSound == /\ Pool!FirstAddStands
             /\ [](world = "backtest" => Pool!PicksAccounted /\ Pool!SoldLater /\ Pool!LimitsHold /\ Pool!WorstFall)

(* The outcome recorded for a pick survives what its tenant's other requests   *)
(* do, and nobody reaches another tenant's picks.                              *)
PicksSound == Records!OutcomeKept /\ Records!TenantsApart

(* A backup that was made can be verified, and a restore can be undone.        *)
BackupsSound == world = "backups" => Zips!BackupsVerify /\ Zips!RestoreUndoable

(* The move to MySQL loses no pick, keeps what it does not touch and adds the  *)
(* other tables' rows once, whichever way it is repeated.                      *)
MoveSound == [](world = "migration" => Move!NothingLost) /\ Move!PicksKept /\ Move!AuxOnce
===============================================================================
