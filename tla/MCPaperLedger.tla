---------------------------- MODULE MCPaperLedger ----------------------------
(***************************************************************************)
(* Small instances of PaperLedger.  A run starts in one of its Worlds:     *)
(* SQLite as the cfg's constants give it, MySQL, or SQLite with a reset on *)
(* a single day, the first, of an account that buys a share at a time.     *)
(***************************************************************************)
EXTENDS PaperLedger

CONSTANTS r1, r2, a, b,
    Worlds, MySQLResets   \* the worlds to start in; resets in the second

VARIABLE world

OneRun == {r1}
TwoRuns == {r1, r2}
OneSymbol == {a}
TwoSymbols == {a, b}
NoSymbols == {}
TwoSignals == {"pullback", "breakout"}
OneReason == {"stop_loss"}
OnePrice == {1}
TwoPrices == {1, 2}

MySQL == INSTANCE PaperLedger WITH Backend <- "mysql", MaxResets <- MySQLResets
OneDay == INSTANCE PaperLedger WITH
    InitialCash <- 3, CashPerTrade <- 1, MaxCrashes <- 0, MaxResets <- 1

PaperInit ==
    /\ world \in Worlds
    /\ IF world = "one_day" THEN OneDay!Init ELSE Init

PaperNext ==
    /\ \/ world = "sqlite" /\ Next
       \/ world = "mysql" /\ MySQL!Next
       \/ world = "one_day" /\ OneDay!Next /\ day' = day
    /\ UNCHANGED world

PaperSpec == PaperInit /\ [][PaperNext]_<<vars, world>>

BothBackends == {"sqlite", "mysql"}
AllWorlds == {"sqlite", "mysql", "one_day"}
=============================================================================
