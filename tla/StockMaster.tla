------------------------------ MODULE StockMaster ------------------------------
(***************************************************************************)
(* The stocks table, the price limits resolved from it (upsert_stocks and  *)
(* resolve_limit_rule of repositories/market_data_repo.py, the inferences  *)
(* of infrastructure/market_data/utils.py) and what the first-limit-up     *)
(* scan excludes by it.  Rates are in percent.  Stock lists carry a        *)
(* security's name; every write of bars or snapshots puts the symbol in    *)
(* its place.                                                              *)
(***************************************************************************)
EXTENDS Integers, FiniteSets

CONSTANTS Symbols,    \* securities
          BoardOf,    \* their boards: main, chinext, star, bse or convertible_bond
          Days,       \* dates 1..Days
          Calendars   \* calendars: sets of [board, risk, from, to, rate, days, active], to = 0 for none;
                          \* board, risk and from are unique, as the table's constraint has it

VARIABLES calendar,
          warned,  \* securities the market has under risk warning
          stock,   \* the row of each security
          named    \* securities whose row is as a stock list wrote it under their present warning

vars == <<calendar, warned, stock, named>>

NoRow == [known |-> FALSE, risk |-> FALSE, listed |-> 0]
Init == /\ calendar \in Calendars /\ warned \in SUBSET Symbols
        /\ stock = [s \in Symbols |-> NoRow] /\ named = {}

-------------------------------------------------------------------------------
\* _public_stock and upsert_stocks: every column but the industry is written,
\* what an item lacks as inferred from its name.
PublicStock(risk, listed) == [known |-> TRUE, risk |-> risk, listed |-> listed]

\* A provider's stock list with the names of the day; only an import by hand
\* knows since when a security is listed.
UpsertStockList(s, listed) ==
    /\ stock' = [stock EXCEPT ![s] = PublicStock(s \in warned, listed)]
    /\ named' = named \cup {s}
    /\ UNCHANGED <<calendar, warned>>

\* A sync of bars, quotes or auctions: the symbol for a name, nothing more.
UpsertBySymbol(s) ==
    /\ stock' = [stock EXCEPT ![s] = PublicStock(FALSE, 0)]
    /\ named' = named \ {s}
    /\ UNCHANGED <<calendar, warned>>

\* The exchange puts a security under risk warning or takes it back.
Warn(s) == /\ warned' = IF s \in warned THEN warned \ {s} ELSE warned \cup {s}
           /\ named' = named \ {s}
           /\ UNCHANGED <<calendar, stock>>

Next == \E s \in Symbols : (\E d \in 0..Days : UpsertStockList(s, d)) \/ UpsertBySymbol(s) \/ Warn(s)

Spec == Init /\ [][Next]_vars

-------------------------------------------------------------------------------
\* _find_limit_rule_row
Covers(r, board, risk, d) == /\ r.active /\ r.board = board /\ r.risk = risk
                             /\ r.from <= d /\ (r.to = 0 \/ r.to >= d)
SlipFound(board, risk, d) == {r \in calendar : Covers(r, board, risk, d)}
Found(board, risk, d) ==
    {r \in calendar : Covers(r, board, risk, d) /\ \A o \in calendar : Covers(o, board, risk, d) => o.from <= r.from}

\* infer_limit_rate; 0 for None.
Inferred(board, risk) ==
    IF board = "convertible_bond" THEN 0
    ELSE IF risk THEN 5 ELSE IF board = "bse" THEN 30 ELSE IF board \in {"chinext", "star"} THEN 20 ELSE 10

\* resolve_limit_rule for a symbol and a date.
FirstDays(r, listed, d) == listed > 0 /\ r.days > 0 /\ d >= listed /\ d - listed < r.days
Resolve(s, d) ==
    LET board == BoardOf[s] row == stock[s] found == Found(board, row.risk, d) IN
    IF found # {} THEN LET r == CHOOSE r \in found : TRUE
                       IN [rate |-> r.rate, unlimited |-> FirstDays(r, row.listed, d), source |-> "calendar"]
    ELSE [rate |-> Inferred(board, row.risk), unlimited |-> FALSE, source |-> IF Inferred(board, row.risk) > 0 THEN "inferred" ELSE "missing"]

\* _should_exclude of the first-limit-up scan, with its default configuration.
Excluded(s) == BoardOf[s] = "convertible_bond" \/ stock[s].risk \/ BoardOf[s] = "bse"

(* The calendar gives at most one rule for a security and a date, one in force *)
(* then that no later one replaces, and only without one is the rate inferred. *)
RuleInForce ==
    \A s \in Symbols, d \in 1..Days :
        LET kin == {r \in calendar : Covers(r, BoardOf[s], stock[s].risk, d)}
            found == Found(BoardOf[s], stock[s].risk, d)
        IN /\ Cardinality(found) = (IF kin = {} THEN 0 ELSE 1)
           /\ (Resolve(s, d).source = "calendar") <=> (kin # {})
           /\ \A r \in found, o \in kin : o.from <= r.from

(* The days a security trades without a limit are its first ones: they start   *)
(* when it was listed and no day with a limit lies between two of them, unless *)
(* the rule changed.                                                           *)
UnlimitedFirst ==
    \A s \in Symbols, d \in 1..Days :
        Resolve(s, d).unlimited => /\ stock[s].listed \in 1..d
                                   /\ \E r \in calendar : r.board = BoardOf[s] /\ d < stock[s].listed + r.days

(* As long as the row of a security is as a stock list wrote it, the scan and  *)
(* the limits go by the warning it is under.                                   *)
NamedByWarning == \A s \in named : /\ s \in warned => Excluded(s)
                                   /\ stock[s].risk = (s \in warned)
===============================================================================
