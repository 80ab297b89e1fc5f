----------------------------- MODULE HistoryCache -----------------------------
(***************************************************************************)
(* What StockDataService (services/stock_data_service.py) answers: the     *)
(* local table first, then a file written at an earlier answer, then the   *)
(* provider outside, whose bars are kept in the file and in the table.     *)
(* Trading dates and stock lists go the same way but keep no bars, and     *)
(* while the provider is down they are guessed.                            *)
(***************************************************************************)
EXTENDS Integers, FiniteSets

CONSTANTS Days, Windows,  \* days 1..Days; windows <<first, last>> that are asked for
          Holidays,       \* weekdays without trading
          HistLife, DatesLife  \* days a file is good for

VARIABLES today,
          local,   \* days with bars in the local table
          hist,    \* files of bars by window: [at, days], at = 0 for none
          dates,   \* files of trading dates by window: [at, days]
          answer,  \* the last answer: [kind, win, days, from, up]
          guessed, \* the last day a calendar was guessed, 0 for never
          lost     \* windows whose bars a failed write left out of the local table

vars == <<today, local, hist, dates, answer, guessed, lost>>

None == [kind |-> "none", win |-> <<0, 0>>, days |-> {}, from |-> "none", up |-> TRUE]
NoFile == [at |-> 0, days |-> {}]

Init == /\ today = 1 /\ local = {} /\ answer = None /\ guessed = 0 /\ lost = {}
        /\ hist = [w \in Windows |-> NoFile] /\ dates = [w \in Windows |-> NoFile]

In(ds, w) == {d \in ds : w[1] <= d /\ d <= w[2]}
Weekdays == 1..Days
Trading == Weekdays \ Holidays

NextDay == today < Days /\ today' = today + 1 /\ UNCHANGED <<local, hist, dates, answer, guessed, lost>>

\* A sync stores some days of its own.
Sync(d) == d \in Trading \ local /\ d <= today /\ local' = local \cup {d} /\ UNCHANGED <<today, hist, dates, answer, guessed, lost>>

Fresh(file, life) == file.at > 0 /\ today - file.at < life

\* _is_cache_usable
Usable(ds) == ds # {}

\* _persist_hist_to_local may fail and only says so.
SlipPersist(got, kept) == local
Persist(got, kept) == IF got # {} /\ kept THEN local \cup got ELSE local

\* get_stock_hist: the table, the file, the provider; a provider that is down
\* gives nothing.
AskHist(w, up, kept) ==
    LET have == In(local, w)
        filed == Fresh(hist[w], HistLife) /\ Usable(hist[w].days)
        got == IF filed THEN hist[w].days ELSE IF up THEN {d \in In(Trading, w) : d <= today} ELSE {}
    IN /\ w[2] <= today + 1
       /\ answer' = [kind |-> "hist", win |-> w, days |-> IF have # {} THEN have ELSE got,
                     from |-> IF have # {} THEN "local" ELSE IF filed THEN "file" ELSE "outside", up |-> up]
       /\ hist' = IF have = {} /\ ~filed /\ Usable(got) THEN [hist EXCEPT ![w] = [at |-> today, days |-> got]] ELSE hist
       /\ local' = IF have = {} THEN Persist(got, kept) ELSE local
       /\ lost' = IF have = {} /\ got # {} /\ ~kept THEN lost \cup {w} ELSE lost
       /\ UNCHANGED <<today, dates, guessed>>

\* get_trading_dates: the dates of whatever bars the table has, the file, the
\* provider's calendar, or all weekdays when it is down; every answer is filed.
Filed(w) == Fresh(dates[w], DatesLife)
AskDates(w, up) ==
    LET have == In(local, w)
        got == IF up THEN In(Trading, w) ELSE In(Weekdays, w)
    IN /\ answer' = [kind |-> "dates", win |-> w, days |-> IF have # {} THEN have ELSE IF Filed(w) THEN dates[w].days ELSE got,
                     from |-> IF have # {} THEN "local" ELSE IF Filed(w) THEN "file" ELSE "outside", up |-> up]
       /\ dates' = IF have = {} /\ ~Filed(w) THEN [dates EXCEPT ![w] = [at |-> today, days |-> got]] ELSE dates
       /\ guessed' = IF have = {} /\ ~Filed(w) /\ ~up THEN today ELSE guessed
       /\ UNCHANGED <<today, local, hist, lost>>

Next == \/ NextDay
        \/ \E d \in Weekdays : Sync(d)
        \/ \E w \in Windows, up \in BOOLEAN : AskDates(w, up) \/ \E kept \in BOOLEAN : AskHist(w, up, kept)

Spec == Init /\ [][Next]_vars

-------------------------------------------------------------------------------
(* An outage does not outlast itself in the answers about bars: while the      *)
(* provider is up, an empty answer means that it has no bar of the window.     *)
OutagePasses == [][answer'.kind = "hist" /\ answer'.up /\ answer'.days = {} => {d \in In(Trading, answer'.win) : d <= today} = {}]_answer

(* Asked twice for one window, the answer about bars never loses a day, as     *)
(* long as no write of the window's bars to the local table failed.            *)
BarsStay == [][answer'.kind = "hist" /\ answer.kind = "hist" /\ answer'.win = answer.win /\ answer.win \notin lost'
                   => answer.days \subseteq answer'.days]_vars

(* Holidays get into an answer about trading dates only from a calendar that   *)
(* was guessed during an outage, and for DatesLife days at most: from then on, *)
(* with the provider up, every answer is right again.                          *)
GuessEnds == [][answer'.kind = "dates" /\ answer'.days \cap Holidays # {} => guessed' > 0 /\ today - guessed' < DatesLife]_answer
===============================================================================
