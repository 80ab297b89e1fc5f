------------------------------- MODULE ScanRuns -------------------------------
(***************************************************************************)
(* Scans that borrow what the process shares: a production run sets the    *)
(* variable MARKET_DATA_LOCAL_ONLY of the process around its scan          *)
(* (_local_market_data_only of application/strategy_api_service.py), and   *)
(* every scan sets the limits in the configuration of the one strategy     *)
(* object (_bounded_strategy_scan of application/scan_api_service.py).     *)
(* Each keeps what it found and puts it back.                              *)
(***************************************************************************)
EXTENDS Integers, FiniteSets

CONSTANTS Threads,   \* threads of the process that run tasks
          Original,  \* scan_limit of the configuration
          Sizes,     \* sizes that scans ask for
          Cap,       \* the limit of a scan that is not of the full universe
          MaxScans   \* bound on scans

VARIABLES localOnly,  \* the variable of the process
          limit,      \* scan_limit of the strategy object
          thread,     \* what each thread is doing
          scans       \* scans begun

vars == <<localOnly, limit, thread, scans>>

Idle == [kind |-> "none", step |-> "idle", size |-> 0, keptFlag |-> FALSE, keptLimit |-> 0, found |-> "none", outside |-> FALSE]
Init == localOnly = FALSE /\ limit = Original /\ thread = [t \in Threads |-> Idle] /\ scans = 0

Least(a, b) == IF a < b THEN a ELSE b

\* A scan.run task, or the scan of a production run, which sets the variable.
BeginScan(t, size) ==
    /\ thread[t].step = "idle" /\ scans < MaxScans
    /\ thread' = [thread EXCEPT ![t] = [Idle EXCEPT !.kind = "scan", !.step = "begun", !.size = size]]
    /\ scans' = scans + 1 /\ UNCHANGED <<localOnly, limit>>
BeginProduction(t, size) ==
    /\ thread[t].step = "idle" /\ scans < MaxScans
    /\ thread' = [thread EXCEPT ![t] = [Idle EXCEPT !.kind = "production", !.step = "begun", !.size = size, !.keptFlag = localOnly]]
    /\ localOnly' = TRUE
    /\ scans' = scans + 1 /\ UNCHANGED limit

\* health_check of the provider, then _bounded_strategy_scan; a provider that is
\* down gives no candidates and nothing is scanned.
Bounded(t) == IF thread[t].kind = "production" THEN thread[t].size ELSE Least(thread[t].size, Cap)
Bound(t) ==
    /\ thread[t].step = "begun"
    /\ thread' = [thread EXCEPT ![t].step = "scanning", ![t].keptLimit = limit]
    /\ limit' = Bounded(t)
    /\ UNCHANGED <<localOnly, scans>>
Unhealthy(t) ==
    /\ thread[t].step = "begun"
    /\ thread' = [thread EXCEPT ![t].step = "leaving", ![t].found = "nothing"]
    /\ UNCHANGED <<localOnly, limit, scans>>

\* The strategy asks for a history that the table lacks: it goes outside unless
\* the variable forbids it.
Miss(t) ==
    /\ thread[t].step = "scanning"
    /\ thread' = [thread EXCEPT ![t].outside = @ \/ ~localOnly]
    /\ UNCHANGED <<localOnly, limit, scans>>

\* The scan ends with candidates, none, or an exception; what was borrowed for
\* it is put back.  Without candidates a scan that is not of production shows
\* some securities of the market instead.
Sample(t) == IF thread[t].kind = "production" THEN "nothing" ELSE "sample"
PutBack(t, how) == thread[t].keptLimit
EndScan(t, how) ==
    /\ thread[t].step = "scanning"
    /\ limit' = PutBack(t, how)
    /\ thread' = [thread EXCEPT ![t].step = "leaving", ![t].found = IF how = "candidates" THEN "candidates" ELSE Sample(t)]
    /\ UNCHANGED <<localOnly, scans>>

\* The end of the production run's context, and of the task.
Leave(t) ==
    /\ thread[t].step = "leaving"
    /\ localOnly' = IF thread[t].kind = "production" THEN thread[t].keptFlag ELSE localOnly
    /\ thread' = [thread EXCEPT ![t].step = "trading"]
    /\ UNCHANGED <<limit, scans>>
Done(t) == thread[t].step = "trading" /\ thread' = [thread EXCEPT ![t] = Idle] /\ UNCHANGED <<localOnly, limit, scans>>

Next == \E t \in Threads :
    \/ \E size \in Sizes : BeginScan(t, size) \/ BeginProduction(t, size)
    \/ Bound(t) \/ Unhealthy(t) \/ Miss(t) \/ Leave(t) \/ Done(t)
    \/ \E how \in {"candidates", "nothing", "raised"} : EndScan(t, how)

Spec == Init /\ [][Next]_vars

-------------------------------------------------------------------------------
(* Once no scan is under way, what scans borrowed is as it was, whatever way   *)
(* they ended; one scan at a time, as in a worker.                             *)
SettingsRestored == (\A t \in Threads : thread[t].step \in {"idle", "trading"}) => limit = Original /\ ~localOnly

(* A production run trades only what its strategy found: never the sample of   *)
(* the market that an ordinary scan without candidates shows.                  *)
SampleNotTraded == \A t \in Threads : thread[t].kind = "production" => thread[t].found # "sample"

(* docs/strategy_data_center_refactor.md: with local_only, strategy scans are  *)
(* prevented from calling external providers for missing history.              *)
LocalOnlyScans == \A t \in Threads : thread[t].kind = "production" => ~thread[t].outside
===============================================================================
