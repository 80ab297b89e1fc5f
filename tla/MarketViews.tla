------------------------------ MODULE MarketViews ------------------------------
(***************************************************************************)
(* The pages and summaries over the market tables                          *)
(* (repositories/market_data_repo.py): coverage of securities by bars,     *)
(* sync states, and what a page and the summary beside it say of the same  *)
(* rows.  Securities are numbered in the order of their codes; an adjust   *)
(* of "" is a row of before the column existed.                            *)
(***************************************************************************)
EXTENDS Integers, Sequences, FiniteSets, FiniteSetsExt, SequencesExt

CONSTANTS Backend,                    \* "sqlite" or "mysql"
          MaxSymbol, TypeOf,          \* securities 1..MaxSymbol and their types
          Sources, Adjusts, Days,     \* providers, adjustments, days 1..Days
          PageSizes,                  \* sizes of pages that are asked for
          MaxBars                     \* bound on the bars

VARIABLES stocks, \* securities with a row
          bars,   \* rows <<symbol, source, adjust, day>>
          states  \* sync states by symbol and source: the end of the coverage and the status

vars == <<stocks, bars, states>>

Symbols == 1..MaxSymbol
NoState == [status |-> "none", end |-> 0]
Init == stocks = {} /\ bars = {} /\ states = [k \in Symbols \X Sources |-> NoState]

UpsertStock(s) == s \notin stocks /\ stocks' = stocks \cup {s} /\ UNCHANGED <<bars, states>>

\* upsert_daily_bars, which also makes the stock row.
UpsertBar(s, src, adj, d) ==
    /\ <<s, src, adj, d>> \notin bars /\ Cardinality(bars) < MaxBars
    /\ bars' = bars \cup {<<s, src, adj, d>>} /\ stocks' = stocks \cup {s}
    /\ UNCHANGED states

UpsertState(s, src, status) ==
    /\ states' = [states EXCEPT ![<<s, src>>] = [status |-> status, end |-> Max({0} \cup {b[4] : b \in {x \in bars : x[1] = s}})]]
    /\ UNCHANGED <<stocks, bars>>

Next == \E s \in Symbols :
            \/ UpsertStock(s)
            \/ \E src \in Sources : (\E status \in {"success", "failed"} : UpsertState(s, src, status))
                                    \/ \E adj \in Adjusts, d \in 1..Days : UpsertBar(s, src, adj, d)

Spec == Init /\ [][Next]_vars

-------------------------------------------------------------------------------
\* Filters; "" or "all" leaves one out.  On SQLite rows without an adjustment
\* pass every filter on it.
SourceOk(b, src) == src = "all" \/ b[2] = src
AdjustOk(b, adj) == adj = "all" \/ b[3] = adj \/ (Backend = "sqlite" /\ b[3] = "")
TypeOk(s, type) == type = "all" \/ TypeOf[s] = type

\* coverage_summary: bars joined to their securities.
Synced(src, adj, type) == Cardinality({b[1] : b \in {x \in bars : SourceOk(x, src) /\ AdjustOk(x, adj) /\ TypeOk(x[1], type)}})
Target(type) == Cardinality({s \in stocks : TypeOk(s, type)})

\* list_coverage: securities with what their bars are, the least covered first.
LastDay(s, src, adj) == Max({0} \cup {b[4] : b \in {x \in bars : x[1] = s /\ SourceOk(x, src) /\ AdjustOk(x, adj)}})
Before(a, b) == a.last < b.last \/ (a.last = b.last /\ a.symbol < b.symbol)
CoverageList(src, adj, type) ==
    SetToSortSeq({[symbol |-> s, last |-> LastDay(s, src, adj)] : s \in {x \in stocks : TypeOk(x, type)}}, Before)

\* LIMIT and OFFSET
PageOf(list, size, n) == SubSeq(list, (n - 1) * size + 1, IF n * size < Len(list) THEN n * size ELSE Len(list))

\* sync_state_summary and get_symbol_coverage
StateRows(src) == {k \in DOMAIN states : states[k].status # "none" /\ (src = "all" \/ k[2] = src)}
StateSummary(src) == [total |-> Cardinality(StateRows(src)), good |-> Cardinality({k \in StateRows(src) : states[k].status = "success"}),
                      bad |-> Cardinality({k \in StateRows(src) : states[k].status # "success"})]

(* The summary beside a list of coverage counts the securities of the list     *)
(* that have bars, whatever the filters, and never more than there are.        *)
SummaryAgrees ==
    \A src \in Sources \cup {"all"}, adj \in Adjusts \cup {"all"}, type \in {"all", "stock", "bond"} :
        LET list == CoverageList(src, adj, type) IN
        /\ Synced(src, adj, type) = Cardinality({i \in DOMAIN list : list[i].last > 0})
        /\ Len(list) = Target(type) /\ Synced(src, adj, type) <= Target(type)

(* Page after page, a list that no one writes to shows each of its securities  *)
(* once: the pages in their order are the list.                                *)
PagesWhole ==
    \A size \in PageSizes :
        LET list == CoverageList("all", "all", "all") last == (Len(list) + size - 1) \div size
        IN FlattenSeq([n \in 1..last |-> PageOf(list, size, n)]) = list

(* Successes and the rest of the sync states add up to all of them, for one    *)
(* source as for all, and the sources add up to all.                           *)
StatesAddUp ==
    /\ \A src \in Sources \cup {"all"} : StateSummary(src).good + StateSummary(src).bad = StateSummary(src).total
    /\ MapThenSumSet(LAMBDA src : StateSummary(src).total, Sources) = StateSummary("all").total
===============================================================================
