------------------------------ MODULE FirstLimitUp ------------------------------
(***************************************************************************)
(* The signals of the first-limit-up strategy                              *)
(* (strategies/strategy_first_limit_up.py): a scan takes the last bar that *)
(* the local table has up to its date, wants it to be a first limit-up,    *)
(* and looks for a confirmation in the latest auction snapshot.  Prices    *)
(* are counted in steps of the limit; two of them are within the tolerance *)
(* of the match with the previous close only when they are equal.          *)
(***************************************************************************)
EXTENDS Integers, Sequences, FiniteSets, SequencesExt, FiniteSetsExt

CONSTANTS Stocks,    \* numbers, as their codes are ordered
          Days,      \* trading days 1..Days
          Moves,     \* what a day does to a price, in limits
          Lookback,  \* no_limit_up_lookback
          MinBars,   \* min_bars
          Select     \* select_count

VARIABLES day,      \* the last day that closed
          level,    \* closing prices of each stock, by day
          bars,     \* how many of these days the local table has
          auction,  \* the latest auction snapshot of each stock
          signals,  \* what the last scan answered
          matched,  \* what it had found before it cut
          found     \* first limit-ups that scans found: <<stock, day>>

vars == <<day, level, bars, auction, signals, matched, found>>

NoAuction == [date |-> 0, prev |-> 0, open |-> "none"]
Init == /\ day = 1 /\ level = [s \in Stocks |-> <<0>>] /\ bars = [s \in Stocks |-> 0]
        /\ auction = [s \in Stocks |-> NoAuction] /\ signals = <<>> /\ matched = {} /\ found = {}

-------------------------------------------------------------------------------
\* The market: a day of trading, the auction of the next day, and the syncs.
Trade(move) == /\ day < Days /\ day' = day + 1
               /\ level' = [s \in Stocks |-> Append(level[s], level[s][day] + move[s])]
               /\ UNCHANGED <<bars, auction, signals, matched, found>>
Auction(s, open) == /\ auction' = [auction EXCEPT ![s] = [date |-> day + 1, prev |-> level[s][day], open |-> open]]
                    /\ UNCHANGED <<day, level, bars, signals, matched, found>>
Sync(s) == bars' = [bars EXCEPT ![s] = day] /\ UNCHANGED <<day, level, auction, signals, matched, found>>

\* _is_limit_up_bar of the bar with an index of the frame.
LimitUp(s, i) == i > 1 /\ level[s][i] = level[s][i - 1] + 1

\* _no_recent_limit_up, whose indices begin with zero.
NoRecent(s, last) == \A i \in Max({2, last - Lookback})..last - 1 : ~LimitUp(s, i)

\* _candidate_from_frame, but for the amounts, which are left to the scan.
LastBar(s, date) == Min({bars[s], date})
Candidate(s, date) == LastBar(s, date) >= MinBars /\ LimitUp(s, LastBar(s, date)) /\ NoRecent(s, LastBar(s, date))

\* _auction_confirmation: a snapshot whose previous close is not that of the
\* limit-up leaves the signal to be watched.
Confirmation(s, date) ==
    LET a == auction[s] IN
    IF a = NoAuction \/ a.prev # level[s][LastBar(s, date)] THEN "preopen_watch"
    ELSE IF a.open = "fit" THEN "auction_confirmed" ELSE "auction_rejected"

\* scan: rejected ones are dropped, the rest goes by confirmation, score and code.
Rank(subtype) == IF subtype = "auction_confirmed" THEN 0 ELSE 1
Before(x, y) == \/ Rank(x.subtype) < Rank(y.subtype)
                \/ x.subtype = y.subtype /\ x.score > y.score
                \/ x.subtype = y.subtype /\ x.score = y.score /\ x.stock < y.stock
Payload(s, date, score) ==
    [stock |-> s, date |-> date, limit |-> LastBar(s, date), subtype |-> Confirmation(s, date), score |-> score[s], snapshot |-> auction[s].date]
Scan(date, fit, score) ==
    LET results == {Payload(s, date, score) : s \in {x \in fit : Candidate(x, date)}}
        kept == {r \in results : r.subtype # "auction_rejected"}
    IN /\ matched' = kept
       /\ signals' = SubSeq(SetToSortSeq(kept, Before), 1, Min({Select, Cardinality(kept)}))
       /\ found' = found \cup {<<r.stock, r.limit>> : r \in results}
       /\ UNCHANGED <<day, level, bars, auction>>

Next == \/ \E move \in [Stocks -> Moves] : Trade(move)
        \/ \E s \in Stocks : Sync(s) \/ \E open \in {"fit", "unfit"} : Auction(s, open)
        \/ \E date \in 1..day + 1, fit \in SUBSET Stocks, score \in [Stocks -> {70, 80}] : Scan(date, fit, score)

Spec == Init /\ [][Next]_vars

-------------------------------------------------------------------------------
(* Two first limit-ups of one stock lie more than Lookback days apart, over    *)
(* all scans, for whatever dates and however far the local table was.          *)
FirstBoardsApart == \A x, y \in found : x[1] = y[1] /\ x[2] < y[2] => y[2] - x[2] > Lookback

(* The cut to select_count never drops a confirmed signal while it keeps one   *)
(* that is only to be watched.                                                 *)
ConfirmedKept == \A r \in matched : r.subtype = "auction_confirmed" /\ r \notin ToSet(signals)
                                        => \A i \in DOMAIN signals : signals[i].subtype = "auction_confirmed"
===============================================================================
