------------------------------- MODULE Snapshots -------------------------------
(***************************************************************************)
(* Call-auction and quote snapshots: the tasks that take them              *)
(* (_sync_auction_snapshots and _sync_quote_snapshots of                   *)
(* application/sync_api_service.py), the providers that make auction rows  *)
(* out of quotes, and the tables they go to                                *)
(* (repositories/market_data_repo.py).  Time is counted in slots of a day; *)
(* the auction window is one slot.                                         *)
(***************************************************************************)
EXTENDS Integers, Sequences, FiniteSets, FiniteSetsExt

CONSTANTS Days, Slots,  \* days 1..Days of slots 1..Slots
          Window,       \* the slot of 09:20 to 09:25:59
          Weekend,      \* days without trading
          Tasks         \* ids of tasks

VARIABLES day, slot,
          quote,    \* the row of stock_price_snapshots: when its quote was taken
          auction,  \* rows of stock_auction_snapshots: [date, day, slot]
          task      \* tasks: what they are and how far

vars == <<day, slot, quote, auction, task>>

Now == (day - 1) * Slots + slot
NoTask == [kind |-> "none", step |-> "none", date |-> 0, force |-> FALSE, took |-> 0, due |-> 0]

Init == /\ day = 1 /\ slot = 1 /\ quote = 0 /\ auction = {}
        /\ task = [t \in Tasks |-> NoTask]

-------------------------------------------------------------------------------
Tick == /\ IF slot < Slots THEN slot' = slot + 1 /\ UNCHANGED day
           ELSE day < Days /\ day' = day + 1 /\ slot' = 1
        /\ UNCHANGED <<quote, auction, task>>

\* enqueue_auction_snapshot_sync and enqueue_quote_snapshot_sync.
EnqueueAuction(t, date, force) ==
    /\ task[t].kind = "none"
    /\ task' = [task EXCEPT ![t] = [NoTask EXCEPT !.kind = "auction", !.step = "queued", !.date = date, !.force = force]]
    /\ UNCHANGED <<day, slot, quote, auction>>
EnqueueQuotes(t) ==
    /\ task[t].kind = "none"
    /\ task' = [task EXCEPT ![t] = [NoTask EXCEPT !.kind = "quotes", !.step = "queued"]]
    /\ UNCHANGED <<day, slot, quote, auction>>

\* _auction_window_status, asked when the task starts, not when it was queued.
SlipAllowed(date) == date = day /\ day \notin Weekend
Allowed(date) == date = day /\ day \notin Weekend /\ slot = Window

\* A worker starts a task: an auction task outside the window is skipped unless
\* it is forced, otherwise the provider is asked.
Start(t) ==
    /\ task[t].step = "queued"
    /\ task' = [task EXCEPT ![t].step = IF task[t].kind = "quotes" \/ task[t].force \/ Allowed(task[t].date) THEN "asking" ELSE "skipped",
                            ![t].due = Now]
    /\ UNCHANGED <<day, slot, quote, auction>>

\* get_quote_snapshots of a provider: quotes of the moment it answers.
Answer(t) ==
    /\ task[t].step = "asking"
    /\ task' = [task EXCEPT ![t].step = "writing", ![t].took = Now]
    /\ UNCHANGED <<day, slot, quote, auction>>

\* get_auction_snapshots stamps a quote of another date with the date asked for.
Row(t) == [date |-> task[t].date, took |-> task[t].took]

\* upsert_auction_snapshots keeps a row for every date and time,
\* upsert_quote_snapshots the last one written.
Write(t) ==
    /\ task[t].step = "writing"
    /\ IF task[t].kind = "auction" THEN auction' = auction \cup {Row(t)} /\ UNCHANGED quote
       ELSE quote' = task[t].took /\ UNCHANGED auction
    /\ task' = [task EXCEPT ![t].step = "done"]
    /\ UNCHANGED <<day, slot>>

\* A provider without anything, an error or the end of the process.
Drop(t) == /\ task[t].step \in {"asking", "writing"}
           /\ task' = [task EXCEPT ![t].step = "failed"]
           /\ UNCHANGED <<day, slot, quote, auction>>

Next == \/ Tick
        \/ \E t \in Tasks : \/ \E date \in {day - 1, day} \ {0}, force \in BOOLEAN : EnqueueAuction(t, date, force)
                            \/ EnqueueQuotes(t) \/ Start(t) \/ Answer(t) \/ Write(t) \/ Drop(t)

Spec == Init /\ [][Next]_vars

-------------------------------------------------------------------------------
(* get_latest_auction_snapshot: the row with the latest date, then time.       *)
LatestAuction == IF auction = {} THEN 0
                 ELSE LET last == Max({r.date : r \in auction}) IN Max({r.took : r \in {x \in auction : x.date = last}})

(* An auction row that no forced task made comes from a task that started in   *)
(* the window of the row's date, on a trading day; however long a task waits   *)
(* in the queue, none that starts later stores anything.                       *)
Forced == {t \in Tasks : task[t].kind = "auction" /\ task[t].force}
SlotOf(n) == ((n - 1) % Slots) + 1
DayOf(n) == (n - 1) \div Slots + 1
RowsFromWindow ==
    \A r \in auction :
        \/ \E t \in Forced : task[t].step = "done" /\ Row(t) = r
        \/ \E t \in Tasks : /\ task[t].step = "done" /\ Row(t) = r /\ ~task[t].force
                            /\ SlotOf(task[t].due) = Window /\ DayOf(task[t].due) = r.date /\ r.date \notin Weekend

(* Without forced tasks, the row that get_latest_auction_snapshot answers with  *)
(* is the one taken last, when every provider answers on the day it is asked.   *)
SameDay == \A t \in Tasks : task[t].step = "done" => DayOf(task[t].due) = DayOf(task[t].took)
LatestIsNewest == Forced = {} /\ SameDay => \A r \in auction : r.took <= LatestAuction
===============================================================================
