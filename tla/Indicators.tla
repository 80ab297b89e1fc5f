------------------------------ MODULE Indicators ------------------------------
(***************************************************************************)
(* The 2560 indicators kept in the cache (_precompute_2560_indicators of   *)
(* application/sync_api_service.py): a payload for each symbol with enough *)
(* bars, and an index of the symbols that is read, extended and written    *)
(* back at the end.  Both live for the same time after their last write.   *)
(***************************************************************************)
EXTENDS Integers, FiniteSets

CONSTANTS Symbols, Procs, Days,
          Enough,  \* bars an indicator needs
          Lookback,\* days of bars that are read
          Life     \* days a cache entry lives

VARIABLES today,
          bars,    \* days of each symbol's bars in the local table
          cache,   \* the payload of each symbol: its last bar and when it expires
          index,   \* the symbols of the index and when it expires
          job,     \* what each process is doing
          torn     \* symbols cached by a job that died or overlapped another's index

vars == <<today, bars, cache, index, job, torn>>

Idle == [step |-> "idle", todo |-> {}, done |-> {}, read |-> {}]
Init == /\ today = 1 /\ bars = [s \in Symbols |-> {}]
        /\ cache = [s \in Symbols |-> [upto |-> 0, until |-> 0]] /\ index = [symbols |-> {}, until |-> 0]
        /\ job = [p \in Procs |-> Idle] /\ torn = {}

Live(entry) == entry.until >= today

NextDay == today < Days /\ today' = today + 1 /\ UNCHANGED <<bars, cache, index, job, torn>>

Sync(s) == /\ today \notin bars[s] /\ bars' = [bars EXCEPT ![s] = @ \cup {today}]
           /\ UNCHANGED <<today, cache, index, job, torn>>

Begin(p, symbols) ==
    /\ job[p].step = "idle" /\ symbols # {}
    /\ job' = [job EXCEPT ![p] = [Idle EXCEPT !.step = "symbols", !.todo = symbols]]
    /\ UNCHANGED <<today, bars, cache, index, torn>>

\* _indicator_payload: nothing without enough bars of the last days.
Window(s) == {d \in bars[s] : d >= today - Lookback}
Ready(s) == Cardinality(Window(s)) >= Enough
Last(ds) == CHOOSE d \in ds : \A e \in ds : e <= d

Compute(p, s) ==
    /\ job[p].step = "symbols" /\ s \in job[p].todo
    /\ IF Ready(s) THEN /\ cache' = [cache EXCEPT ![s] = [upto |-> Last(Window(s)), until |-> today + Life]]
                        /\ job' = [job EXCEPT ![p].todo = @ \ {s}, ![p].done = @ \cup {s}]
                        /\ torn' = torn \ {s}
       ELSE job' = [job EXCEPT ![p].todo = @ \ {s}] /\ UNCHANGED <<cache, torn>>
    /\ UNCHANGED <<today, bars, index>>

ReadIndex(p) ==
    /\ job[p].step = "symbols" /\ job[p].todo = {}
    /\ job' = [job EXCEPT ![p].step = "index", ![p].read = IF Live(index) THEN index.symbols ELSE {}]
    /\ UNCHANGED <<today, bars, cache, index, torn>>

SlipWriteIndex(p) ==
    /\ job[p].step = "index"
    /\ index' = [symbols |-> job[p].done, until |-> today + Life]
    /\ torn' = torn \cup ((IF Live(index) THEN index.symbols ELSE {}) \ job[p].read)
    /\ job' = [job EXCEPT ![p] = Idle]
    /\ UNCHANGED <<today, bars, cache>>
WriteIndex(p) ==
    /\ job[p].step = "index"
    /\ index' = [symbols |-> job[p].read \cup job[p].done, until |-> today + Life]
    /\ torn' = torn \cup ((IF Live(index) THEN index.symbols ELSE {}) \ job[p].read)
    /\ job' = [job EXCEPT ![p] = Idle]
    /\ UNCHANGED <<today, bars, cache>>

\* The process dies: what it cached stays.
Die(p) == /\ job[p].step # "idle" /\ job' = [job EXCEPT ![p] = Idle]
          /\ torn' = torn \cup job[p].done
          /\ UNCHANGED <<today, bars, cache, index>>

Next == \/ NextDay
        \/ \E s \in Symbols : Sync(s)
        \/ \E p \in Procs : \/ \E symbols \in SUBSET Symbols : Begin(p, symbols)
                            \/ \E s \in Symbols : Compute(p, s)
                            \/ ReadIndex(p) \/ WriteIndex(p) \/ Die(p)

Spec == Init /\ [][Next]_vars

-------------------------------------------------------------------------------
(* A payload that is alive is listed in an index that is alive, unless its job *)
(* is still on the way or died before the index, or the index was written from *)
(* a copy older than the listing: indexes of overlapping jobs drop symbols.    *)
OnTheWay == UNION {job[p].done : p \in Procs}
IndexCovers ==
    \A s \in Symbols : Live(cache[s]) => (Live(index) /\ s \in index.symbols) \/ s \in torn \cup OnTheWay
===============================================================================
