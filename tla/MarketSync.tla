------------------------------ MODULE MarketSync ------------------------------
(***************************************************************************)
(* Synchronisation of daily bars (application/sync_api_service.py) through *)
(* the fallback provider into the market tables                            *)
(* (repositories/market_data_repo.py): a run takes its symbols one after   *)
(* the other, asks the providers for a window, stores the bars, then the   *)
(* sync state and the run item.  Other runs, reads that fill the local     *)
(* table (services/stock_data_service.py) and deaths come in between.      *)
(* Days are numbered; every day is a trading day.                          *)
(***************************************************************************)
EXTENDS Integers, Sequences, FiniteSets, FiniteSetsExt, SequencesExt

CONSTANTS Symbols, Days,  \* securities; days 1..Days
          Sources,        \* the providers in the order they are tried
          Procs,          \* workers that run sync tasks
          Requests,       \* requests: [symbols, start, incremental, back, correction]
          Windows,        \* windows of history reads, as <<first, last>>
          MaxRuns         \* bound on sync runs

VARIABLES today,
          stocks,  \* symbols of the stocks table
          bars,    \* rows <<symbol, source, day>> of stock_daily_bars
          state,   \* market_sync_states, by symbol and source
          run,     \* market_sync_runs with their items, in order
          worker   \* what each process is doing

vars == <<today, stocks, bars, state, run, worker>>

Provider == "fallback"
Sourced == Range(Sources) \cup {Provider}
NoState == [status |-> "none", upto |-> 0, good |-> 0, errors |-> 0]
Idle == [step |-> "idle", run |-> 0, todo |-> <<>>, sym |-> "", from |-> 0, to |-> 0, got |-> {}, source |-> Provider,
         upto |-> 0, raced |-> FALSE]

\* get_symbol_coverage: over all sources, 0 when there is no bar.
DaysOf(s) == {d \in 1..Days : \E src \in Range(Sources) : <<s, src, d>> \in bars}
Latest(s) == Max({0} \cup DaysOf(s))

Init == /\ today = 1 /\ stocks = {} /\ bars = {}
        /\ state = [k \in Symbols \X Sourced |-> NoState]
        /\ run = <<>> /\ worker = [p \in Procs |-> Idle]

-------------------------------------------------------------------------------
\* _resolve_symbols: the named symbols, each once.
Resolved(req) ==
    LET asked == req.symbols
        kept[n \in 0..Len(asked)] == IF n = 0 THEN <<>>
                                     ELSE IF \E j \in 1..n - 1 : asked[j] = asked[n] THEN kept[n - 1] ELSE Append(kept[n - 1], asked[n])
    IN kept[Len(asked)]

\* _symbol_sync_window: the first day to ask for.
SlipWindowStart(req, s) ==
    LET latest == Latest(s) IN
    IF req.start > 0 THEN req.start
    ELSE IF ~req.incremental \/ latest = 0 THEN today - Max({1, req.back})
    ELSE IF req.correction > 0 THEN latest - req.correction ELSE latest + 2
WindowStart(req, s) ==
    LET latest == Latest(s) IN
    IF req.start > 0 THEN req.start
    ELSE IF ~req.incremental \/ latest = 0 THEN today - Max({1, req.back})
    ELSE IF req.correction > 0 THEN latest - req.correction ELSE latest + 1

\* _try_each: the first provider with something to give answers, from the
\* window's first day to some day it has; none may have anything.
Answers(from, to) == {[source |-> src, got |-> from..k] : src \in Range(Sources), k \in Max({1, from})..to}
Nothing == [source |-> Provider, got |-> {}]

\* create_sync_run and the loop's preparation.
Begin(p, req) ==
    /\ worker[p].step = "idle" /\ Len(run) < MaxRuns
    /\ run' = Append(run, [status |-> "running", req |-> req, wanted |-> Resolved(req), items |-> <<>>, synced |-> 0, failed |-> 0, by |-> p])
    /\ worker' = [worker EXCEPT ![p] = [Idle EXCEPT !.step = "next", !.run = Len(run) + 1, !.todo = Resolved(req)]]
    /\ UNCHANGED <<today, stocks, bars, state>>

\* The window of the next symbol.
Window(p) ==
    LET w == worker[p] IN
    /\ w.step = "next" /\ w.todo # <<>>
    /\ worker' = [worker EXCEPT ![p] = [Idle EXCEPT !.step = "fetch", !.run = w.run, !.todo = Tail(w.todo), !.sym = Head(w.todo),
                                        !.from = WindowStart(run[w.run].req, Head(w.todo)), !.to = today]]
    /\ UNCHANGED <<today, stocks, bars, state, run>>

\* get_daily_bars of the fallback provider: an error when no one has bars.
Fetch(p) ==
    LET w == worker[p] IN
    /\ w.step = "fetch"
    /\ \/ \E a \in Answers(w.from, w.to) :
             worker' = [worker EXCEPT ![p] = [w EXCEPT !.step = "stock", !.got = a.got \cap 1..Days, !.source = a.source]]
       \/ worker' = [worker EXCEPT ![p] = [w EXCEPT !.step = "failed", !.source = Nothing.source]]
    /\ UNCHANGED <<today, stocks, bars, state, run>>

\* Each write of the try block may raise instead.
Raise(p) ==
    /\ worker[p].step \in {"stock", "bars", "state"}
    /\ worker' = [worker EXCEPT ![p].step = "failed", ![p].source = Provider]
    /\ UNCHANGED <<today, stocks, bars, state, run>>

\* upsert_stocks
StoreStock(p) ==
    /\ worker[p].step = "stock"
    /\ stocks' = stocks \cup {worker[p].sym}
    /\ worker' = [worker EXCEPT ![p].step = "bars"]
    /\ UNCHANGED <<today, bars, state, run>>

\* upsert_daily_bars, which upserts the stock again, in one transaction each; then the coverage is read.
Stored(s, src, ds) == {<<s, src, d>> : d \in ds}
Noted(p, s) == [q \in Procs |-> [worker[q] EXCEPT !.raced = @ \/ (q # p /\ worker[q].sym = s)]]
StoreBars(p) ==
    LET w == worker[p] IN
    /\ w.step = "bars"
    /\ bars' = bars \cup Stored(w.sym, w.source, w.got)
    /\ stocks' = stocks \cup {w.sym}
    /\ worker' = [Noted(p, w.sym) EXCEPT ![p] = [w EXCEPT !.step = "state", !.upto = Max({Latest(w.sym)} \cup w.got)]]
    /\ UNCHANGED <<today, state, run>>

\* upsert_sync_state
GoodState(old, upto) == [old EXCEPT !.status = "success", !.upto = upto, !.good = upto]
BadState(old, upto) == [old EXCEPT !.status = "failed", !.upto = upto, !.errors = @ + 1]

\* record_sync_run_item
Item(w, status) == [sym |-> w.sym, status |-> status, bars |-> Cardinality(w.got)]

Onward(w) == [Idle EXCEPT !.step = "next", !.run = w.run, !.todo = w.todo]

\* A symbol done: its state and its item.
Mark(p) ==
    LET w == worker[p] IN
    /\ w.step = "state"
    /\ state' = [state EXCEPT ![<<w.sym, w.source>>] = GoodState(@, w.upto)]
    /\ run' = [run EXCEPT ![w.run].items = Append(@, Item(w, "success"))]
    /\ worker' = [worker EXCEPT ![p] = Onward(w)]
    /\ UNCHANGED <<today, stocks, bars>>

\* The except branch: a failed state under the provider's own name.
Fail(p) ==
    LET w == worker[p] IN
    /\ w.step = "failed"
    /\ state' = [state EXCEPT ![<<w.sym, Provider>>] = BadState(@, Latest(w.sym))]
    /\ run' = [run EXCEPT ![w.run].items = Append(@, Item([w EXCEPT !.got = {}], "failed"))]
    /\ worker' = [worker EXCEPT ![p] = Onward(w)]
    /\ UNCHANGED <<today, stocks, bars>>

\* finish_sync_run; with no success at all the task then raises.
Count(items, status) == Cardinality({i \in DOMAIN items : items[i].status = status})
Verdict(good, bad) == IF bad > 0 /\ good = 0 THEN "failed" ELSE IF bad > 0 THEN "completed_with_errors" ELSE "completed"
Finish(p) ==
    LET w == worker[p]
        good == Count(run[w.run].items, "success")
        bad == Count(run[w.run].items, "failed")
    IN /\ w.step = "next" /\ w.todo = <<>>
       /\ run' = [run EXCEPT ![w.run].status = Verdict(good, bad), ![w.run].synced = good, ![w.run].failed = bad]
       /\ worker' = [worker EXCEPT ![p] = Idle]
       /\ UNCHANGED <<today, stocks, bars, state>>

\* The process dies, or a write of the except branch raises out of the run.
Die(p) == /\ worker[p].step # "idle"
          /\ worker' = [worker EXCEPT ![p] = Idle]
          /\ UNCHANGED <<today, stocks, bars, state, run>>

\* StockDataService.get_stock_hist: a window without local bars is fetched from
\* outside, and what comes is kept (upsert_daily_bars makes the stock row too).
ReadThrough(s, win) ==
    /\ DaysOf(s) \cap win[1]..win[2] = {} /\ win[2] <= today
    /\ \E k \in win[1]..win[2] : bars' = bars \cup Stored(s, Sources[Len(Sources)], win[1]..k)
    /\ stocks' = stocks \cup {s}
    /\ worker' = Noted("", s)
    /\ UNCHANGED <<today, state, run>>

NextDay == today < Days /\ today' = today + 1 /\ UNCHANGED <<stocks, bars, state, run, worker>>

Next == \/ \E p \in Procs : \/ \E req \in Requests : Begin(p, req)
                            \/ Window(p) \/ Fetch(p) \/ Raise(p) \/ StoreStock(p) \/ StoreBars(p) \/ Mark(p) \/ Fail(p) \/ Finish(p)
                            \/ Die(p)
        \/ \E s \in Symbols, win \in Windows : ReadThrough(s, win)
        \/ NextDay

Spec == Init /\ [][Next]_vars

-------------------------------------------------------------------------------
(* A run that ended has one item for each symbol asked for, its counts and its *)
(* status are those of the items, and a symbol counted as synced has bars and  *)
(* a row in the stocks table, whatever other runs, reads and deaths did.       *)
Done(r) == r.status # "running"
RunAccounted ==
    \A i \in DOMAIN run : Done(run[i]) =>
        LET r == run[i] IN
        /\ {r.items[j].sym : j \in DOMAIN r.items} = Range(r.req.symbols)
        /\ Len(r.items) = Cardinality(Range(r.req.symbols)) /\ r.synced + r.failed = Len(r.items)
        /\ (r.status = "failed") <=> (r.failed = Len(r.items) /\ r.failed > 0)
        /\ \A j \in DOMAIN r.items : r.items[j].status = "success" => DaysOf(r.items[j].sym) # {} /\ r.items[j].sym \in stocks

(* The coverage a sync state claims never exceeds the bars of the symbol,      *)
(* however runs on the same symbol overlap, fail or die.                       *)
StateWithinBars == \A k \in DOMAIN state : state[k].upto <= Latest(k[1]) /\ state[k].good <= Latest(k[1])

(* An incremental sync, with nobody else writing bars of the symbol between    *)
(* its window and its write, makes no new gap among the symbol's days, but for *)
(* one before the first of them, when it goes back some days to correct bars   *)
(* and the provider has only the first of those it is asked for.               *)
Gaps(s) == {d \in 1..Latest(s) : d \notin DaysOf(s) /\ \E e \in DaysOf(s) : e < d}
AddsNoGap(p) ==
    LET w == worker[p] IN
    w.step = "bars" /\ worker'[p].step = "state" /\ run[w.run].req.incremental /\ run[w.run].req.start = 0 /\ ~w.raced
        => \A d \in Gaps(w.sym)' \ Gaps(w.sym) : /\ run[w.run].req.correction > 0 /\ DaysOf(w.sym) # {}
                                                 /\ \A e \in DaysOf(w.sym) : d < e
NoGapMade == [][\A p \in Procs : AddsNoGap(p)]_vars
===============================================================================
