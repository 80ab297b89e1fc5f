--------------------------- MODULE StrategyLifecycle ---------------------------
(***************************************************************************)
(* The life of a strategy (application/strategy_api_service.py and         *)
(* repositories/strategy_repo.py): its row is created, edited, tested,     *)
(* deployed and switched on and off, and production runs of it are         *)
(* triggered, queued, gated by the local data and may end in paper orders. *)
(***************************************************************************)
EXTENDS Integers, Sequences, FiniteSets

CONSTANTS Backend,    \* "sqlite" or "mysql"
          Strategies, \* what the strategy may be: [code, source], built in or custom
          Failing,    \* checks that may fail
          MaxLack,    \* bound on the checks that fail at one time
          MaxRuns     \* bound on production runs
ASSUME StrategiesAssumption == \A s \in Strategies : s.source \in {"custom", "builtin"}

VARIABLES row,    \* the strategy
          test,   \* the test that is running: of a body that parses or not
          data,   \* what the local data lack: the checks that fail
          run,    \* production runs in order
          off,    \* the last switch turned the strategy off
          passed, \* a test has passed
          byHand  \* an edit wrote the lifecycle status itself

vars == <<row, test, data, run, off, passed, byHand>>

Nothing == "nothing"
\* create_strategy of the service makes a draft that is not enabled; the bodies
\* themselves do not matter here.
Created(s) == [active |-> TRUE, enabled |-> s.source = "builtin", stage |-> IF s.source = "custom" THEN "draft" ELSE "deployed",
               last |-> "", oos |-> FALSE, code |-> s.code, source |-> s.source]

\* The checks of a production run in their order; "clean" is that no source is
\* mock or fallback.
Checks == <<"snapshot", "history", "clean">> \o (IF row.code = "LIMIT_UP_RETURN" THEN <<"qfq", "raw", "rules", "clean">> ELSE <<>>) \o <<"coverage">>

Init == /\ \E s \in Strategies : row = Created(s)
        /\ test = Nothing /\ data = {} /\ run = <<>> /\ off = FALSE /\ passed = FALSE /\ byHand = FALSE

-------------------------------------------------------------------------------
\* update_strategy of the repository for the two switches: MySQL moves enabled
\* with is_active, and an explicit enabled has the last word.
SlipSwitched(r, active, enabled) ==
    [r EXCEPT !.active = IF active = Nothing THEN @ ELSE active = "on", !.enabled = IF enabled = Nothing THEN @ ELSE enabled = "on"]
Switched(r, active, enabled) ==
    [r EXCEPT !.active = IF active = Nothing THEN @ ELSE active = "on",
              !.enabled = IF enabled # Nothing THEN enabled = "on"
                          ELSE IF active # Nothing /\ Backend = "mysql" THEN active = "on" ELSE @]

\* update_strategy of the service with a new body, a lifecycle status, a switch
\* or several of these.
Update(body, stage, active, enabled) ==
    /\ row' = [Switched(row, active, enabled) EXCEPT !.stage = IF stage # Nothing THEN stage ELSE IF body THEN "draft" ELSE @]
    /\ off' = IF enabled # Nothing THEN enabled = "off" ELSE IF active # Nothing THEN active = "off" ELSE off
    /\ byHand' = (byHand \/ stage # Nothing)
    /\ UNCHANGED <<test, data, run, passed>>

\* An edit of the configuration: the gate of LIMIT_UP_RETURN.
Configure(oos) == row.code = "LIMIT_UP_RETURN" /\ row' = [row EXCEPT !.oos = oos] /\ UNCHANGED <<test, data, run, off, passed, byHand>>

\* delete_strategy and toggle_strategy_active
Toggle == LET to == IF row.active THEN "off" ELSE "on"
          IN row' = Switched(row, to, Nothing) /\ off' = (to = "off") /\ UNCHANGED <<test, data, run, passed, byHand>>
Delete == row' = Switched(row, "off", Nothing) /\ off' = TRUE /\ UNCHANGED <<test, data, run, passed, byHand>>

\* test_strategy: the body in the request or the stored one, parsed, and the
\* registered strategy tried, which takes its time.
StartTest(body) == test = Nothing /\ test' = body /\ UNCHANGED <<row, data, run, off, passed, byHand>>
SlipVerdict(ok) == test = "parses" \/ ok
Verdict(ok) == test = "parses" /\ ok
EndTest(ok) ==
    /\ test # Nothing /\ test' = Nothing
    /\ row' = [row EXCEPT !.last = IF Verdict(ok) THEN "passed" ELSE "failed", !.stage = IF Verdict(ok) THEN "tested" ELSE "draft"]
    /\ passed' = (passed \/ (test = "parses" /\ ok))
    /\ UNCHANGED <<data, run, off, byHand>>

\* deploy_strategy
MayDeploy == row.last = "passed" \/ row.source = "builtin"
Deploy == /\ MayDeploy
          /\ row' = [row EXCEPT !.enabled = TRUE, !.active = TRUE, !.stage = "deployed"]
          /\ off' = FALSE
          /\ UNCHANGED <<test, data, run, passed, byHand>>

\* The gate of a production run, both when it is triggered and when it starts.
Ready(r) == r.enabled /\ r.stage = "deployed"

\* trigger_production_run; its parameters may claim that the test out of sample
\* has passed, or that it has not.
Trigger(claim) ==
    /\ Ready(row) /\ Len(run) < MaxRuns
    /\ run' = Append(run, [status |-> "queued", claim |-> claim, oos |-> FALSE, whole |-> FALSE, orders |-> FALSE, tries |-> 0])
    /\ UNCHANGED <<row, test, data, off, passed, byHand>>

\* run_deployed_strategy up to the scan.
Lacking == {i \in DOMAIN Checks : Checks[i] \in data}
Start(n) ==
    /\ run[n].status = "queued"
    /\ run' = [run EXCEPT ![n].oos = row.oos, ![n].whole = data = {}, ![n].tries = @ + 1,
                          ![n].status = IF ~Ready(row) THEN "failed" ELSE IF Lacking # {} THEN "blocked" ELSE "scanning"]
    /\ UNCHANGED <<row, test, data, off, passed, byHand>>

\* The end of the scan: with the gate of the row it began with, paper orders.
Gate(r) == row.code = "LIMIT_UP_RETURN" => IF r.claim = Nothing THEN r.oos ELSE r.claim = "passed"
Finish(n, paper) ==
    /\ run[n].status = "scanning"
    /\ run' = [run EXCEPT ![n].status = "completed", ![n].orders = paper /\ Gate(run[n])]
    /\ UNCHANGED <<row, test, data, off, passed, byHand>>

\* The task fails and its one retry begins anew.
Fail(n) ==
    /\ run[n].status = "scanning"
    /\ run' = [run EXCEPT ![n].status = IF run[n].tries < 2 THEN "queued" ELSE "failed"]
    /\ UNCHANGED <<row, test, data, off, passed, byHand>>

\* The local data change under the checks.
Change(check) == /\ \E i \in DOMAIN Checks : Checks[i] = check
                 /\ check \in data \/ Cardinality(data) < MaxLack
                 /\ data' = IF check \in data THEN data \ {check} ELSE data \cup {check}
                 /\ UNCHANGED <<row, test, run, off, passed, byHand>>

Next ==
    \/ \E body \in BOOLEAN, stage \in {"draft", "deployed", Nothing}, active, enabled \in {"on", "off", Nothing} :
           Update(body, stage, active, enabled)
    \/ \E oos \in BOOLEAN : Configure(oos)
    \/ Toggle \/ Delete \/ Deploy
    \/ \E claim \in (IF row.code = "LIMIT_UP_RETURN" THEN {"passed", Nothing} ELSE {Nothing}) : Trigger(claim)
    \/ \E body \in {"parses", "broken"} : StartTest(body)
    \/ \E ok \in BOOLEAN : EndTest(ok)
    \/ \E n \in DOMAIN run : Start(n) \/ Fail(n) \/ \E paper \in BOOLEAN : Finish(n, paper)
    \/ \E check \in Failing : Change(check)

Spec == Init /\ [][Next]_vars

-------------------------------------------------------------------------------
Rows == [active : BOOLEAN, enabled : BOOLEAN, stage : {"draft", "tested", "deployed"}, last : {"", "passed", "failed"},
         oos : BOOLEAN, code : {s.code : s \in Strategies}, source : {"custom", "builtin"}]
Runs == [status : {"queued", "failed", "blocked", "scanning", "completed"}, claim : {"passed", Nothing}, oos : BOOLEAN,
         whole : BOOLEAN, orders : BOOLEAN, tries : Nat]
TypeOK == /\ row \in Rows /\ run \in Seq(Runs) /\ data \subseteq Failing
          /\ off \in BOOLEAN /\ passed \in BOOLEAN /\ byHand \in BOOLEAN

(* With MySQL a strategy whose last switch turned it off starts no scan, be it *)
(* a run queued before or a retry, whoever deleted, toggled or disabled it.    *)
OffStartsNothing == [][\A n \in DOMAIN run : run[n].status = "queued" /\ run'[n].status = "scanning" => ~off]_vars

(* Unless an edit wrote the status itself, a custom strategy that is or was    *)
(* deployed has had some body pass a test, and its production runs came after. *)
DeployedPassed == row.source = "custom" /\ ~byHand /\ (row.stage = "deployed" \/ run # <<>>) => passed

(* Orders come only from runs whose data lacked nothing when the checks were   *)
(* made, and for LIMIT_UP_RETURN only when its configuration then said that    *)
(* the test out of sample had passed, unless the request claimed so itself; a  *)
(* retry makes the checks again.                                               *)
OrdersGated == \A n \in DOMAIN run :
    run[n].orders => run[n].whole /\ (row.code = "LIMIT_UP_RETURN" /\ run[n].claim = Nothing => run[n].oos)

(* A custom strategy is deployed, and trades on paper, only when it passed what *)
(* it has to pass.                                                              *)
LifecycleSound == DeployedPassed /\ OrdersGated

===============================================================================
