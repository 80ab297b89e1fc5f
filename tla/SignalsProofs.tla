------------------------------ MODULE SignalsProofs ------------------------------
(***************************************************************************)
(* Proofs about the strategies: their life, their scans and their signals. *)
(***************************************************************************)
EXTENDS MCSignals, TLAPS

-------------------------------------------------------------------------------
(* The life of a strategy.                                                     *)

\* The row remembers a test that passed; a scan goes on over data that lacked
\* nothing, orders come from what a completed scan was allowed, and with MySQL a
\* strategy that was switched off is not enabled.
Named == data \subseteq {Checks[i] : i \in DOMAIN Checks}
LifecycleInv ==
    /\ TypeOK
    /\ row.last = "passed" => passed
    /\ DeployedPassed
    /\ \A n \in DOMAIN run : /\ run[n].status = "scanning" => run[n].whole
                             /\ run[n].orders => run[n].status = "completed"
    /\ OrdersGated
    /\ Backend = "mysql" /\ off => ~row.enabled
    /\ Named

\* A run that is appended or changed leaves the others as they are.
LEMMA Appended == ASSUME NEW s \in Seq(Runs), NEW e \in Runs
                  PROVE /\ Append(s, e) \in Seq(Runs) /\ Len(s) \in Nat
                        /\ DOMAIN s = 1..Len(s) /\ DOMAIN Append(s, e) = 1..(Len(s) + 1)
                        /\ \A i \in DOMAIN s : Append(s, e)[i] = s[i]
                        /\ Append(s, e)[Len(s) + 1] = e
    OBVIOUS
LEMMA Changed == ASSUME NEW s \in Seq(Runs), NEW n \in DOMAIN s, NEW e \in Runs
                 PROVE /\ [s EXCEPT ![n] = e] \in Seq(Runs)
                       /\ DOMAIN [s EXCEPT ![n] = e] = DOMAIN s
                       /\ \A i \in DOMAIN s : [s EXCEPT ![n] = e][i] = IF i = n THEN e ELSE s[i]
    OBVIOUS

\* The checks that fail stay checks of the strategy, whose code stays.
LEMMA StayNamed == row'.code = row.code /\ data' = data /\ Named => Named'
    BY DEF Named, Checks

\* What the two switches make of the row.
LEMMA SwitchedRow ==
    ASSUME NEW r \in Rows, NEW active \in {"on", "off", Nothing}, NEW enabled \in {"on", "off", Nothing}
    PROVE  LET x == Switched(r, active, enabled) IN
           /\ x \in Rows /\ x.stage = r.stage /\ x.last = r.last /\ x.code = r.code /\ x.source = r.source
           /\ enabled # Nothing => (x.enabled <=> enabled = "on")
           /\ enabled = Nothing /\ active # Nothing /\ Backend = "mysql" => (x.enabled <=> active = "on")
           /\ enabled = Nothing /\ active = Nothing => (x.enabled <=> r.enabled)
<1> DEFINE x == Switched(r, active, enabled)
           on == IF active = Nothing THEN r.active ELSE active = "on"
           able == IF enabled # Nothing THEN enabled = "on"
                   ELSE IF active # Nothing /\ Backend = "mysql" THEN active = "on" ELSE r.enabled
<1>1. x = [r EXCEPT !.active = on, !.enabled = able]
    BY DEF Switched
<1>2. on \in BOOLEAN /\ able \in BOOLEAN
    BY DEF Rows
<1> HIDE DEF x, on, able
<1>3. x \in Rows /\ x.stage = r.stage /\ x.last = r.last /\ x.code = r.code /\ x.source = r.source /\ x.enabled = able
    BY <1>1, <1>2 DEF Rows
<1> QED BY <1>3 DEF able, x, Nothing

\* The edits, switches and tests of the row, which leave the runs alone.
LEMMA RowSteps ==
    ASSUME LifecycleInv,
           \/ \E body \in BOOLEAN, stage \in {"draft", "deployed", Nothing}, active, enabled \in {"on", "off", Nothing} :
                  Update(body, stage, active, enabled)
           \/ \E oos \in BOOLEAN : Configure(oos)
           \/ Toggle \/ Delete \/ Deploy
           \/ \E body \in {"parses", "broken"} : StartTest(body)
           \/ \E ok \in BOOLEAN : EndTest(ok)
    PROVE  LifecycleInv' /\ run' = run
<1> USE DEF LifecycleInv
<1>2. run' = run /\ data' = data
    BY DEF Update, Configure, Toggle, Delete, Deploy, StartTest, EndTest
<1>3. row \in Rows
    BY DEF TypeOK
<1>4. ASSUME NEW body \in BOOLEAN, NEW stage \in {"draft", "deployed", Nothing},
             NEW active \in {"on", "off", Nothing}, NEW enabled \in {"on", "off", Nothing},
             Update(body, stage, active, enabled)
      PROVE  LifecycleInv'
    <2> DEFINE r == Switched(row, active, enabled)
    <2>1. /\ r \in Rows /\ r.stage = row.stage /\ r.last = row.last /\ r.code = row.code /\ r.source = row.source
          /\ enabled # Nothing => (r.enabled <=> enabled = "on")
          /\ enabled = Nothing /\ active # Nothing /\ Backend = "mysql" => (r.enabled <=> active = "on")
          /\ enabled = Nothing /\ active = Nothing => (r.enabled <=> row.enabled)
        BY <1>3, SwitchedRow
    <2>2. row' = [r EXCEPT !.stage = IF stage # Nothing THEN stage ELSE IF body THEN "draft" ELSE @]
        BY <1>4 DEF Update
    <2>3. /\ row' \in Rows /\ row'.last = row.last /\ row'.code = row.code /\ row'.source = row.source /\ row'.enabled = r.enabled
          /\ stage = Nothing => row'.stage = row.stage \/ row'.stage = "draft"
        <3> HIDE DEF r
        <3> QED BY <2>1, <2>2 DEF Rows, Nothing
    <2>4. TypeOK'
        BY <1>2, <1>4, <2>3 DEF TypeOK, Update
    <2>5. (row.last = "passed" => passed)' /\ DeployedPassed'
        BY <1>2, <1>4, <2>3 DEF Update, DeployedPassed
    <2>6. (Backend = "mysql" /\ off => ~row.enabled)'
        BY <1>4, <2>1, <2>3 DEF Update, Nothing
    <2>7. OrdersGated' /\ Named'
        BY <1>2, <2>3, StayNamed DEF OrdersGated
    <2> QED BY <1>2, <2>4, <2>5, <2>6, <2>7
<1>5. ASSUME NEW oos \in BOOLEAN, Configure(oos) PROVE LifecycleInv'
    <2>1. /\ row' \in Rows /\ row'.stage = row.stage /\ row'.last = row.last /\ row'.code = row.code /\ row'.source = row.source
          /\ row'.enabled = row.enabled /\ UNCHANGED <<test, off, passed, byHand>>
        BY <1>3, <1>5 DEF Configure, Rows
    <2>2. TypeOK' /\ DeployedPassed' /\ OrdersGated' /\ Named'
        BY <1>2, <2>1, StayNamed DEF TypeOK, DeployedPassed, OrdersGated
    <2> QED BY <1>2, <2>1, <2>2
<1>6. ASSUME NEW to \in {"on", "off"}, row' = Switched(row, to, Nothing), off' = (to = "off"), UNCHANGED <<test, data, run, passed, byHand>>
      PROVE  LifecycleInv'
    <2>1. /\ row' \in Rows /\ row'.stage = row.stage /\ row'.last = row.last /\ row'.code = row.code /\ row'.source = row.source
          /\ Backend = "mysql" => (row'.enabled <=> to = "on")
        BY <1>3, <1>6, SwitchedRow DEF Nothing
    <2>2. TypeOK'
        BY <1>6, <2>1 DEF TypeOK
    <2>3. (row.last = "passed" => passed)' /\ DeployedPassed' /\ OrdersGated'
        BY <1>6, <2>1 DEF DeployedPassed, OrdersGated
    <2>4. Named'
        BY <1>6, <2>1, StayNamed
    <2> QED BY <1>6, <2>1, <2>2, <2>3, <2>4
<1>7. CASE Toggle \/ Delete
    BY <1>6, <1>7 DEF Toggle, Delete
<1>8. CASE Deploy
    <2>1. /\ row' \in Rows /\ row'.last = row.last /\ row'.code = row.code /\ row'.source = row.source
          /\ row.last = "passed" \/ row.source = "builtin"
          /\ off' = FALSE /\ UNCHANGED <<test, passed, byHand>>
        BY <1>3, <1>8 DEF Deploy, MayDeploy, Rows
    <2>2. TypeOK' /\ DeployedPassed' /\ OrdersGated' /\ Named'
        BY <1>2, <2>1, StayNamed DEF TypeOK, DeployedPassed, OrdersGated
    <2> QED BY <1>2, <2>1, <2>2
<1>9. ASSUME NEW body \in {"parses", "broken"}, StartTest(body) PROVE LifecycleInv'
    <2>1. UNCHANGED <<row, data, run, off, passed, byHand>>
        BY <1>9 DEF StartTest
    <2>2. TypeOK' /\ DeployedPassed' /\ OrdersGated' /\ Named'
        BY <2>1, StayNamed DEF TypeOK, DeployedPassed, OrdersGated
    <2> QED BY <2>1, <2>2
<1>10. ASSUME NEW ok \in BOOLEAN, EndTest(ok) PROVE LifecycleInv'
    <2> DEFINE last == IF Verdict(ok) THEN "passed" ELSE "failed"
               stage == IF Verdict(ok) THEN "tested" ELSE "draft"
    <2>1. row' = [row EXCEPT !.last = last, !.stage = stage] /\ passed' = (passed \/ (test = "parses" /\ ok))
          /\ UNCHANGED <<data, run, off, byHand>>
        BY <1>10 DEF EndTest
    <2>2. /\ last \in {"passed", "failed"} /\ stage \in {"tested", "draft"}
          /\ last = "passed" => passed'
        BY <2>1 DEF Verdict
    <2> HIDE DEF last, stage
    <2>3. /\ row' \in Rows /\ row'.last = last /\ row'.stage = stage /\ row'.code = row.code /\ row'.source = row.source /\ row'.enabled = row.enabled
        BY <1>3, <2>1, <2>2 DEF Rows
    <2>4. passed => passed'
        BY <2>1
    <2>5. passed' \in BOOLEAN
        BY <2>1
    <2>6. TypeOK'
        BY <2>1, <2>3, <2>5 DEF TypeOK
    <2>7. DeployedPassed' /\ OrdersGated'
        BY <2>1, <2>2, <2>3, <2>4 DEF DeployedPassed, OrdersGated
    <2>8. Named'
        BY <2>1, <2>3, StayNamed
    <2> QED BY <2>1, <2>2, <2>3, <2>6, <2>7, <2>8
<1> QED BY <1>2, <1>4, <1>5, <1>7, <1>8, <1>9, <1>10

\* The steps of the production runs, and the local data under them.
LEMMA RunSteps == ASSUME LifecycleInv, NEW n \in DOMAIN run,
                         Start(n) \/ Fail(n) \/ \E paper \in BOOLEAN : Finish(n, paper)
                  PROVE  LifecycleInv'
<1> USE DEF LifecycleInv
<1>1. run \in Seq(Runs) /\ run[n] \in Runs /\ UNCHANGED <<row, test, data, off, passed, byHand>>
    <2>1. run \in Seq(Runs)
        BY DEF TypeOK
    <2>2. run[n] \in Runs
        BY <2>1
    <2> QED BY <2>1, <2>2 DEF Start, Fail, Finish
<1>2. PICK e \in Runs :
         /\ run' = [run EXCEPT ![n] = e]
         /\ e.status = "scanning" => e.whole
         /\ e.orders => e.status = "completed" /\ e.whole /\ (row.code = "LIMIT_UP_RETURN" /\ e.claim = Nothing => e.oos)
    <2>1. CASE Start(n)
        <3> DEFINE whole == data = {}
                   status == IF ~Ready(row) THEN "failed" ELSE IF Lacking # {} THEN "blocked" ELSE "scanning"
                   tries == run[n].tries + 1
                   e == [run[n] EXCEPT !.oos = row.oos, !.whole = whole, !.tries = tries, !.status = status]
        <3>1. run' = [run EXCEPT ![n] = e]
            BY <2>1 DEF Start
        <3>2. ~run[n].orders /\ row.oos \in BOOLEAN
            BY <2>1, <1>1 DEF Start, TypeOK, Rows
        <3>3. Lacking = {} => data = {}
            BY DEF Lacking, Named
        <3>4. /\ whole \in BOOLEAN /\ status \in {"failed", "blocked", "scanning"} /\ tries \in Nat
              /\ status = "scanning" => whole
            BY <1>1, <3>3 DEF Runs
        <3> HIDE DEF whole, status, tries
        <3>5. e \in Runs /\ e.orders = run[n].orders /\ e.status = status /\ e.whole = whole
            BY <1>1, <3>2, <3>4 DEF Runs
        <3> HIDE DEF e
        <3> QED BY <3>1, <3>2, <3>4, <3>5
    <2>2. CASE Fail(n)
        <3> DEFINE e == [run[n] EXCEPT !.status = IF run[n].tries < 2 THEN "queued" ELSE "failed"]
        <3>1. run' = [run EXCEPT ![n] = e]
            BY <2>2 DEF Fail
        <3>2. ~run[n].orders
            BY <2>2, <1>1 DEF Fail
        <3>3. e \in Runs /\ ~e.orders /\ e.status # "scanning"
            BY <1>1, <3>2 DEF Runs
        <3> QED BY <3>1, <3>3
    <2>3. ASSUME NEW paper \in BOOLEAN, Finish(n, paper)
          PROVE  \E e \in Runs : /\ run' = [run EXCEPT ![n] = e]
                                 /\ e.status = "scanning" => e.whole
                                 /\ e.orders => e.status = "completed" /\ e.whole
                                                /\ (row.code = "LIMIT_UP_RETURN" /\ e.claim = Nothing => e.oos)
        <3> DEFINE e == [run[n] EXCEPT !.status = "completed", !.orders = paper /\ Gate(run[n])]
        <3>1. run' = [run EXCEPT ![n] = e]
            BY <2>3 DEF Finish
        <3>2. run[n].whole
            BY <2>3 DEF Finish
        <3>3. Gate(run[n]) \in BOOLEAN
            BY <1>1 DEF Gate, Runs
        <3>4. /\ e \in Runs /\ e.status = "completed" /\ e.whole
              /\ e.orders => Gate(run[n])
              /\ e.claim = run[n].claim /\ e.oos = run[n].oos
            BY <1>1, <3>2, <3>3 DEF Runs
        <3>5. Gate(run[n]) => (row.code = "LIMIT_UP_RETURN" /\ run[n].claim = Nothing => run[n].oos)
            BY DEF Gate
        <3> QED BY <3>1, <3>4, <3>5
    <2> QED BY <2>1, <2>2, <2>3
<1>3. /\ run' \in Seq(Runs) /\ DOMAIN run' = DOMAIN run
      /\ \A i \in DOMAIN run : run'[i] = IF i = n THEN e ELSE run[i]
    BY <1>1, <1>2, Changed
<1>4. TypeOK'
    BY <1>1, <1>3 DEF TypeOK
<1>5. DeployedPassed'
    BY <1>1, <1>3 DEF DeployedPassed, TypeOK
<1>6. OrdersGated' /\ (\A i \in DOMAIN run : /\ run[i].status = "scanning" => run[i].whole
                                             /\ run[i].orders => run[i].status = "completed")'
    BY <1>1, <1>2, <1>3 DEF OrdersGated
<1>7. Named'
    BY <1>1, StayNamed
<1> QED BY <1>1, <1>4, <1>5, <1>6, <1>7

LEMMA LifecycleStep == LifecycleInv /\ [Next]_vars => LifecycleInv'
<1> SUFFICES ASSUME LifecycleInv, [Next]_vars PROVE LifecycleInv'
    OBVIOUS
<1> USE DEF LifecycleInv
<1>1. CASE UNCHANGED vars
    BY <1>1, StayNamed DEF vars, TypeOK, DeployedPassed, OrdersGated
<1>2. ASSUME NEW claim \in {"passed", Nothing}, Trigger(claim) PROVE LifecycleInv'
    <2> DEFINE e == [status |-> "queued", claim |-> claim, oos |-> FALSE, whole |-> FALSE, orders |-> FALSE, tries |-> 0]
    <2>1. e \in Runs /\ e.status = "queued" /\ ~e.orders
        BY DEF Runs
    <2>2. run' = Append(run, e) /\ row.stage = "deployed" /\ UNCHANGED <<row, test, data, off, passed, byHand>>
        BY <1>2 DEF Trigger, Ready
    <2> HIDE DEF e
    <2>3. /\ run' \in Seq(Runs)
          /\ \A i \in DOMAIN run' : (i \in DOMAIN run /\ run'[i] = run[i]) \/ run'[i] = e
        <3>1. run \in Seq(Runs)
            BY DEF TypeOK
        <3> QED BY <2>1, <2>2, <3>1, Appended
    <2>4. TypeOK' /\ DeployedPassed'
        BY <2>2, <2>3 DEF TypeOK, DeployedPassed
    <2>5. OrdersGated' /\ (\A i \in DOMAIN run : /\ run[i].status = "scanning" => run[i].whole
                                                 /\ run[i].orders => run[i].status = "completed")'
        BY <2>1, <2>2, <2>3 DEF OrdersGated
    <2>6. Named'
        BY <2>2, StayNamed
    <2> QED BY <2>2, <2>4, <2>5, <2>6
<1>3. ASSUME NEW check \in Failing, Change(check) PROVE LifecycleInv'
    <2>1. UNCHANGED <<row, test, run, off, passed, byHand>>
        BY <1>3 DEF Change
    <2>2. data' \subseteq Failing /\ Named'
        BY <1>3, <2>1 DEF Change, TypeOK, Named, Checks
    <2>3. TypeOK' /\ DeployedPassed' /\ OrdersGated'
        BY <2>1, <2>2 DEF TypeOK, DeployedPassed, OrdersGated
    <2> QED BY <2>1, <2>2, <2>3
<1> QED BY <1>1, <1>2, <1>3, RowSteps, RunSteps DEF Next

LEMMA Lifecycle == Spec => []LifecycleInv
<1>1. Init => LifecycleInv
    <2> SUFFICES ASSUME Init PROVE LifecycleInv
        OBVIOUS
    <2>1. PICK s \in Strategies : row = Created(s)
        BY DEF Init
    <2>2. row \in Rows /\ row.source = s.source /\ row.last = "" /\ (row.stage = "deployed" => s.source # "custom")
        BY <2>1, StrategiesAssumption DEF Created, Rows
    <2>3. data = {} /\ run = <<>> /\ off = FALSE /\ passed = FALSE /\ byHand = FALSE
        BY DEF Init
    <2>4. <<>> \in Seq(Runs) /\ DOMAIN <<>> = {}
        OBVIOUS
    <2>5. TypeOK
        BY <2>2, <2>3, <2>4 DEF TypeOK
    <2>6. DeployedPassed /\ OrdersGated
        BY <2>2, <2>3, <2>4 DEF DeployedPassed, OrdersGated
    <2> QED BY <2>2, <2>3, <2>4, <2>5, <2>6 DEF LifecycleInv, Named
<1> QED BY <1>1, LifecycleStep, PTL DEF Spec

\* Whatever the backend, the code of the strategy and the checks that fail, it is
\* deployed and its runs end in orders only after what they have to pass.
THEOREM StrategyIsSound == Spec => []LifecycleSound
    BY Lifecycle, PTL DEF LifecycleInv, LifecycleSound

\* On MySQL no run begins its scan after the strategy was switched off.
THEOREM OffRunsNothing == ASSUME Backend = "mysql" PROVE Spec => OffStartsNothing
<1>1. LifecycleInv /\ [Next]_vars =>
         [\A n \in DOMAIN run : run[n].status = "queued" /\ run'[n].status = "scanning" => ~off]_vars
    <2> SUFFICES ASSUME LifecycleInv, Next, NEW n \in DOMAIN run, run[n].status = "queued", run'[n].status = "scanning"
                 PROVE  ~off
        OBVIOUS
    <2>1. run' # run
        OBVIOUS
    <2>2. ASSUME NEW claim \in {"passed", Nothing}, Trigger(claim) PROVE FALSE
        <3> DEFINE e == [status |-> "queued", claim |-> claim, oos |-> FALSE, whole |-> FALSE, orders |-> FALSE, tries |-> 0]
        <3>1. e \in Runs /\ run' = Append(run, e) /\ run \in Seq(Runs)
            BY <2>2 DEF Trigger, Runs, LifecycleInv, TypeOK
        <3> HIDE DEF e
        <3> QED BY <3>1, Appended
    <2>3. ASSUME NEW m \in DOMAIN run, Start(m) PROVE ~off
        <3>1. m = n
            BY <2>3 DEF Start, LifecycleInv, TypeOK
        <3>2. Ready(row)
            <4> DEFINE status == IF ~Ready(row) THEN "failed" ELSE IF Lacking # {} THEN "blocked" ELSE "scanning"
            <4>1. run[n] \in Runs /\ run \in Seq(Runs)
                BY DEF LifecycleInv, TypeOK
            <4>2. run'[n].status = status
                BY <2>3, <3>1, <4>1 DEF Start, Runs
            <4> QED BY <4>2
        <3> QED BY <3>2 DEF Ready, LifecycleInv
    <2>4. ASSUME NEW m \in DOMAIN run, Fail(m) \/ \E paper \in BOOLEAN : Finish(m, paper) PROVE FALSE
        BY <2>4 DEF Fail, Finish, LifecycleInv, TypeOK, Runs
    <2>5. ASSUME NEW check \in Failing, Change(check) PROVE FALSE
        BY <2>1, <2>5 DEF Change
    <2> QED BY <2>1, <2>2, <2>3, <2>4, <2>5, RowSteps DEF Next
<1> QED BY <1>1, Lifecycle, PTL DEF Spec, OffStartsNothing

-------------------------------------------------------------------------------
(* The scans of a process.                                                     *)

ScanThread == [kind : {"none", "scan", "production"}, step : {"idle", "begun", "scanning", "leaving", "trading"},
               size : Nat, keptFlag : BOOLEAN, keptLimit : Nat, found : {"none", "nothing", "candidates", "sample"}, outside : BOOLEAN]

\* Whatever scans there are side by side, one of production has found no sample.
ScansInv == /\ \A t \in DOMAIN thread : /\ thread[t] \in ScanThread
                                        /\ thread[t].kind = "production" => thread[t].found # "sample"
            /\ localOnly \in BOOLEAN /\ limit \in Nat

\* One scan at a time has found the settings as they are when none is under way,
\* and of it a production run alone has set the variable.
Borrowed(t) ==
    /\ thread[t].step \in {"idle", "begun", "leaving", "trading"} => limit = Original
    /\ thread[t].step \in {"idle", "trading"} => ~localOnly
    /\ thread[t].step \in {"begun", "scanning", "leaving"} =>
          (localOnly <=> thread[t].kind = "production") /\ thread[t].keptFlag = FALSE
    /\ thread[t].step = "scanning" => thread[t].keptLimit = Original
AloneInv == ScansInv /\ DOMAIN thread = {"w"} /\ Borrowed("w")

\* What thread t may do is the same however many threads there are.
ScanAct(t) ==
    \/ \E size \in Sizes : ScansOverlap!BeginScan(t, size) \/ ScansOverlap!BeginProduction(t, size)
    \/ ScansOverlap!Bound(t) \/ ScansOverlap!Unhealthy(t) \/ ScansOverlap!Miss(t) \/ ScansOverlap!Leave(t) \/ ScansOverlap!Done(t)
    \/ \E how \in {"candidates", "nothing", "raised"} : ScansOverlap!EndScan(t, how)

\* A step of a thread changes its record only; no sample comes to production, and
\* what is borrowed is put back.
LEMMA ScanStep ==
    ASSUME ScansInv, NEW t \in DOMAIN thread, ScanAct(t)
    PROVE  ScansInv' /\ DOMAIN thread' = DOMAIN thread /\ (Borrowed(t) => Borrowed(t)')
<1> DEFINE r == thread[t]
<1>0. /\ r \in ScanThread /\ (r.kind = "production" => r.found # "sample") /\ localOnly \in BOOLEAN /\ limit \in Nat
    BY DEF ScansInv
<1>1. SUFFICES ASSUME NEW e \in ScanThread, thread' = [thread EXCEPT ![t] = e],
                      e.kind = "production" => e.found # "sample", localOnly' \in BOOLEAN, limit' \in Nat,
                      Borrowed(t) => /\ e.step \in {"idle", "begun", "leaving", "trading"} => limit' = Original
                                     /\ e.step \in {"idle", "trading"} => ~localOnly'
                                     /\ e.step \in {"begun", "scanning", "leaving"} =>
                                           (localOnly' <=> e.kind = "production") /\ e.keptFlag = FALSE
                                     /\ e.step = "scanning" => e.keptLimit = Original
               PROVE  ScansInv' /\ DOMAIN thread' = DOMAIN thread /\ (Borrowed(t) => Borrowed(t)')
    <2> DEFINE Good(e) == /\ e.kind = "production" => e.found # "sample"
                          /\ localOnly' \in BOOLEAN /\ limit' \in Nat
                          /\ Borrowed(t) => /\ e.step \in {"idle", "begun", "leaving", "trading"} => limit' = Original
                                            /\ e.step \in {"idle", "trading"} => ~localOnly'
                                            /\ e.step \in {"begun", "scanning", "leaving"} =>
                                                  (localOnly' <=> e.kind = "production") /\ e.keptFlag = FALSE
                                            /\ e.step = "scanning" => e.keptLimit = Original
    <2> SUFFICES \E e \in ScanThread : thread' = [thread EXCEPT ![t] = e] /\ Good(e)
        BY <1>1
    <2>1. ScansOverlap!Idle \in ScanThread /\ ScansOverlap!Idle.kind = "none" /\ ScansOverlap!Idle.keptFlag = FALSE /\ ScansOverlap!Idle.found = "none"
          /\ ScansOverlap!Idle.step = "idle"
        BY DEF ScansOverlap!Idle, ScanThread
    <2> HIDE DEF ScansOverlap!Idle
    <2>2. ASSUME NEW size \in Sizes, ScansOverlap!BeginScan(t, size) PROVE \E e \in ScanThread : thread' = [thread EXCEPT ![t] = e] /\ Good(e)
        <3> DEFINE e == [ScansOverlap!Idle EXCEPT !.kind = "scan", !.step = "begun", !.size = size]
        <3>1. e \in ScanThread /\ e.step = "begun" /\ e.found = "none" /\ e.kind = "scan" /\ e.keptFlag = FALSE
            BY <2>1, ScanAssumption DEF ScanThread
        <3>2. thread' = [thread EXCEPT ![t] = e] /\ localOnly' = localOnly /\ limit' = limit /\ r.step = "idle"
            BY <2>2 DEF ScansOverlap!BeginScan
        <3> HIDE DEF e
        <3> QED BY <1>0, <3>1, <3>2 DEF Borrowed
    <2>3. ASSUME NEW size \in Sizes, ScansOverlap!BeginProduction(t, size) PROVE \E e \in ScanThread : thread' = [thread EXCEPT ![t] = e] /\ Good(e)
        <3> DEFINE e == [ScansOverlap!Idle EXCEPT !.kind = "production", !.step = "begun", !.size = size, !.keptFlag = localOnly]
        <3>1. e \in ScanThread /\ e.step = "begun" /\ e.found = "none" /\ e.kind = "production" /\ e.keptFlag = localOnly
            BY <1>0, <2>1, ScanAssumption DEF ScanThread
        <3>2. thread' = [thread EXCEPT ![t] = e] /\ localOnly' = TRUE /\ limit' = limit /\ r.step = "idle"
            BY <2>3 DEF ScansOverlap!BeginProduction
        <3> HIDE DEF e
        <3> QED BY <1>0, <3>1, <3>2 DEF Borrowed
    <2>4. CASE ScansOverlap!Bound(t)
        <3> DEFINE e == [r EXCEPT !.step = "scanning", !.keptLimit = limit]
        <3>1. e \in ScanThread /\ e.step = "scanning" /\ e.keptLimit = limit /\ e.kind = r.kind /\ e.found = r.found /\ e.keptFlag = r.keptFlag
            BY <1>0 DEF ScanThread
        <3>2. thread' = [thread EXCEPT ![t] = e] /\ localOnly' = localOnly /\ r.step = "begun"
            BY <2>4 DEF ScansOverlap!Bound
        <3>3. limit' \in Nat
            BY <1>0, <2>4, ScanAssumption DEF ScansOverlap!Bound, ScansOverlap!Bounded, ScansOverlap!Least, ScanThread
        <3>4. Good(e)
            BY <1>0, <3>1, <3>2, <3>3 DEF Borrowed
        <3> QED BY <3>1, <3>2, <3>4
    <2>5. CASE ScansOverlap!Unhealthy(t)
        <3> DEFINE e == [r EXCEPT !.step = "leaving", !.found = "nothing"]
        <3>1. e \in ScanThread /\ e.step = "leaving" /\ e.found = "nothing" /\ e.kind = r.kind /\ e.keptFlag = r.keptFlag
            BY <1>0 DEF ScanThread
        <3>2. thread' = [thread EXCEPT ![t] = e] /\ localOnly' = localOnly /\ limit' = limit /\ r.step = "begun"
            BY <2>5 DEF ScansOverlap!Unhealthy
        <3> QED BY <1>0, <3>1, <3>2 DEF Borrowed
    <2>6. CASE ScansOverlap!Miss(t)
        <3> DEFINE out == r.outside \/ ~localOnly
                   e == [r EXCEPT !.outside = out]
        <3>1. out \in BOOLEAN
            OBVIOUS
        <3>2. thread' = [thread EXCEPT ![t] = e] /\ localOnly' = localOnly /\ limit' = limit /\ r.step = "scanning"
            BY <2>6 DEF ScansOverlap!Miss
        <3> HIDE DEF out
        <3>3. e \in ScanThread /\ e.step = r.step /\ e.found = r.found /\ e.kind = r.kind /\ e.keptFlag = r.keptFlag /\ e.keptLimit = r.keptLimit
            BY <1>0, <3>1 DEF ScanThread
        <3> HIDE DEF e
        <3> QED BY <1>0, <3>2, <3>3 DEF Borrowed
    <2>7. CASE ScansOverlap!Leave(t)
        <3> DEFINE e == [r EXCEPT !.step = "trading"]
        <3>1. e \in ScanThread /\ e.step = "trading" /\ e.found = r.found /\ e.kind = r.kind
            BY <1>0 DEF ScanThread
        <3>2. /\ thread' = [thread EXCEPT ![t] = e] /\ limit' = limit /\ r.step = "leaving"
              /\ localOnly' = IF r.kind = "production" THEN r.keptFlag ELSE localOnly
            BY <2>7 DEF ScansOverlap!Leave
        <3>3. localOnly' \in BOOLEAN
            BY <1>0, <3>2 DEF ScanThread
        <3> QED BY <1>0, <3>1, <3>2, <3>3 DEF Borrowed
    <2>8. CASE ScansOverlap!Done(t)
        BY <1>0, <2>1, <2>8 DEF ScansOverlap!Done, Borrowed
    <2>9. ASSUME NEW how \in {"candidates", "nothing", "raised"}, ScansOverlap!EndScan(t, how)
          PROVE  \E e \in ScanThread : thread' = [thread EXCEPT ![t] = e] /\ Good(e)
        <3> DEFINE got == IF how = "candidates" THEN "candidates" ELSE IF r.kind = "production" THEN "nothing" ELSE "sample"
                   e == [r EXCEPT !.step = "leaving", !.found = got]
        <3>1. got \in {"nothing", "candidates", "sample"} /\ (r.kind = "production" => got # "sample")
            OBVIOUS
        <3>2. thread' = [thread EXCEPT ![t] = e] /\ localOnly' = localOnly /\ limit' = r.keptLimit /\ r.step = "scanning"
            BY <2>9 DEF ScansOverlap!EndScan, ScansOverlap!PutBack, ScansOverlap!Sample
        <3> HIDE DEF got
        <3>3. e \in ScanThread /\ e.step = "leaving" /\ e.found = got /\ e.kind = r.kind /\ e.keptFlag = r.keptFlag
            BY <1>0, <3>1 DEF ScanThread
        <3>4. limit' \in Nat
            BY <1>0, <3>2 DEF ScanThread
        <3> HIDE DEF e
        <3> QED BY <1>0, <3>1, <3>2, <3>3, <3>4 DEF Borrowed
    <2> QED BY <2>2, <2>3, <2>4, <2>5, <2>6, <2>7, <2>8, <2>9 DEF ScanAct
<1>2. DOMAIN thread' = DOMAIN thread /\ \A u \in DOMAIN thread : thread'[u] = IF u = t THEN e ELSE thread[u]
    BY <1>1
<1>3. ScansInv'
    BY <1>1, <1>2 DEF ScansInv
<1>4. Borrowed(t) => Borrowed(t)'
    BY <1>1, <1>2 DEF Borrowed
<1> QED BY <1>2, <1>3, <1>4

(* On MySQL a strategy that was switched off starts no scan; one scan at a     *)
(* time puts back what it borrowed, and no production run, alone or beside     *)
(* others, trades the sample.                                                  *)
THEOREM RunsStaySound == ASSUME Backend = "mysql" PROVE SignalSpec => RunsSound
<1> DEFINE I == /\ world = "scans" => AloneInv
                /\ world = "scans_overlap" => ScansInv /\ DOMAIN thread = Threads
<1>1. SignalInit => Init /\ I
    <2> SUFFICES ASSUME SignalInit PROVE Init /\ I
        OBVIOUS
    <2>1. /\ Init
          /\ localOnly = FALSE /\ limit = Original
          /\ thread = [t \in IF world = "scans_overlap" THEN Threads ELSE {"w"} |-> ScansOverlap!Idle]
        BY DEF SignalInit, Scans!Init, ScansOverlap!Init, Scans!Idle, ScansOverlap!Idle
    <2>2. ScansOverlap!Idle \in ScanThread /\ ScansOverlap!Idle.kind = "none" /\ ScansOverlap!Idle.step = "idle"
        BY DEF ScansOverlap!Idle, ScanThread
    <2> HIDE DEF ScansOverlap!Idle
    <2> QED BY <2>1, <2>2, ScanAssumption DEF AloneInv, ScansInv, Borrowed
<1>2. I /\ [SignalNext]_signalVars => [Next]_vars /\ I'
    <2> SUFFICES ASSUME I, [SignalNext]_signalVars PROVE [Next]_vars /\ I'
        OBVIOUS
    <2>1. CASE world = "scans" /\ Scans!Next /\ UNCHANGED <<world, lifeVars>>
        <3>1. ScanAct("w")
            BY <2>1 DEF ScanAct, Scans!Next, Scans!BeginScan, Scans!BeginProduction, Scans!Bound, Scans!Unhealthy, Scans!Miss, Scans!Leave, Scans!Done,
                        Scans!EndScan, Scans!Idle, Scans!Bounded, Scans!Least, Scans!PutBack, Scans!Sample,
                        ScansOverlap!BeginScan, ScansOverlap!BeginProduction, ScansOverlap!Bound, ScansOverlap!Unhealthy, ScansOverlap!Miss,
                        ScansOverlap!Leave, ScansOverlap!Done, ScansOverlap!EndScan, ScansOverlap!Idle, ScansOverlap!Bounded, ScansOverlap!Least,
                        ScansOverlap!PutBack, ScansOverlap!Sample
        <3>2. AloneInv'
            BY <2>1, <3>1, ScanStep DEF AloneInv
        <3> QED BY <2>1, <3>2 DEF lifeVars
    <2>2. CASE world = "scans_overlap" /\ ScansOverlap!Next /\ UNCHANGED <<world, lifeVars>>
        <3>1. PICK t \in Threads : ScanAct(t)
            BY <2>2 DEF ScanAct, ScansOverlap!Next
        <3> QED BY <2>2, <3>1, ScanStep DEF lifeVars
    <2>3. ASSUME [Next]_vars, UNCHANGED <<world, scanVars>> PROVE [Next]_vars /\ I'
        BY <2>3 DEF scanVars, AloneInv, ScansInv, Borrowed
    <2>4. CASE UNCHANGED signalVars
        BY <2>3, <2>4 DEF signalVars, lifeVars
    <2> QED BY <2>1, <2>2, <2>3, <2>4 DEF SignalNext, lifeVars
<1>3. I => /\ world = "scans" => Scans!SettingsRestored /\ Scans!SampleNotTraded
           /\ world = "scans_overlap" => ScansOverlap!SampleNotTraded
    BY DEF AloneInv, ScansInv, Borrowed, Scans!SettingsRestored, Scans!SampleNotTraded, ScansOverlap!SampleNotTraded
<1> HIDE DEF I
<1>4. SignalSpec => Spec
    BY <1>1, <1>2, PTL DEF SignalSpec, Spec
<1>5. Spec => OffStartsNothing
    BY OffRunsNothing
<1> QED BY <1>1, <1>2, <1>3, <1>4, <1>5, PTL DEF SignalSpec, RunsSound

-------------------------------------------------------------------------------
(* The convertible bonds.                                                      *)

\* The least and the greatest of a set of numbers are the ones that are.
LEMMA Extremes ==
    ASSUME NEW S \in SUBSET Int, NEW m \in S
    PROVE  /\ (\A x \in S : m <= x) => Bond!Min(S) = m
           /\ (\A x \in S : x <= m) => Bond!Max(S) = m
<1>1. ASSUME \A x \in S : m <= x PROVE Bond!Min(S) = m
    <2>1. \A k \in S : (\A x \in S : k <= x) => k = m
        BY <1>1
    <2> QED BY <1>1, <2>1 DEF Bond!Min
<1>2. ASSUME \A x \in S : x <= m PROVE Bond!Max(S) = m
    <2>1. \A k \in S : (\A x \in S : k >= x) => k = m
        BY <1>2
    <2>2. \A x \in S : m >= x
        BY <1>2
    <2> QED BY <2>1, <2>2 DEF Bond!Max
<1> QED BY <1>1, <1>2

\* What is known of the days seen: exit holds the last bar.
LastBar(s, x) == /\ x.day \in DOMAIN s /\ s[x.day] # -1
                 /\ x = [price |-> s[x.day], day |-> x.day]
                 /\ \A d \in DOMAIN s : d > x.day => s[d] = -1
BondInv == /\ seen \in Seq(Closes \cup {-1})
           /\ step = "listed" => seen = <<>>
           /\ step = "held" => /\ Len(seen) < Holding
                               /\ \A d \in DOMAIN seen : seen[d] # -1 => Bond!Trigger(seen[d], entry) = "none"
                               /\ LastBar(seen, exit)
           /\ Bond!SoldAtFirst

\* A day looked at: the days before it called for no sale.
LEMMA LookStep ==
    ASSUME NEW close \in Closes \cup {-1}, NEW paid, seen \in Seq(Closes \cup {-1}), Len(seen) < Holding,
           \A d \in DOMAIN seen : seen[d] # -1 => Bond!Trigger(seen[d], paid) = "none",
           close # -1 \/ LastBar(seen, exit),
           entry' = paid, bond' = bond, Bond!Look(close, Len(seen) + 1, paid)
    PROVE  BondInv'
<1> DEFINE n == Len(seen) + 1
<1>1. /\ n \in 1..Holding /\ seen' \in Seq(Closes \cup {-1}) /\ Len(seen') = n /\ DOMAIN seen' = 1..n
      /\ DOMAIN seen = 1..(n - 1) /\ seen'[n] = close /\ \A d \in DOMAIN seen : seen'[d] = seen[d]
    <2>1. seen' = Append(seen, close)
        BY DEF Bond!Look
    <2>2. Holding \in Nat
        BY BondAssumption
    <2> QED BY <2>1, <2>2
<1>2. LastBar(seen', exit')
    <2>1. CASE close = -1
        <3>1. exit' = exit /\ LastBar(seen, exit)
            BY <2>1 DEF Bond!Look
        <3> QED BY <1>1, <2>1, <3>1 DEF LastBar
    <2>2. CASE close # -1
        <3>1. exit' = [price |-> close, day |-> n]
            BY <2>2 DEF Bond!Look
        <3> QED BY <1>1, <2>2, <3>1 DEF LastBar
    <2> QED BY <2>1, <2>2
<1>3. ASSUME NEW d PROVE (Bond!Trigger(seen[d], entry))' = Bond!Trigger(seen'[d], paid)
    BY DEF Bond!Trigger
<1> DEFINE calls == {d \in DOMAIN seen' : seen'[d] # -1 /\ Bond!Trigger(seen'[d], paid) # "none"}
           days == {d \in DOMAIN seen' : seen'[d] # -1}
           at == IF calls # {} THEN Bond!Min(calls) ELSE Bond!Max(days)
<1>4. Bond!SoldAtFirst' <=>
         (step' = "sold" => /\ exit' = [price |-> seen'[at], day |-> at] /\ at <= Holding /\ Len(seen') <= Holding
                            /\ reason' = IF calls # {} THEN Bond!Trigger(seen'[at], paid) ELSE "max_holding_days")
    <2>1. {d \in DOMAIN seen : seen[d] # -1 /\ Bond!Trigger(seen[d], entry) # "none"}' = calls
        BY <1>3
    <2>2. ASSUME NEW d PROVE (Bond!Trigger(seen[d], entry))' = Bond!Trigger(seen'[d], paid)
        BY <1>3
    <2> HIDE DEF calls
    <2> QED BY <2>1, <2>2 DEF Bond!SoldAtFirst
<1>5. (\A d \in DOMAIN seen : seen[d] # -1 => Bond!Trigger(seen[d], entry) = "none")' <=> calls = {}
    BY <1>3
\* The sale, for the reason the last close gives or at the end of the window.
<1>6. ASSUME close # -1, Bond!Trigger(close, paid) # "none" PROVE BondInv'
    <2>1. /\ exit' = [price |-> close, day |-> n]
          /\ step' \in {"sold", "skipped"} /\ (step' = "sold" => reason' = Bond!Trigger(close, paid))
        BY <1>6 DEF Bond!Look, Bond!Sale
    <2>2. calls = {n}
        BY <1>1, <1>6
    <2>3. calls # {} /\ at = n
        <3>1. n \in calls /\ calls \in SUBSET Int /\ \A x \in calls : n <= x
            BY <1>1, <2>2
        <3> HIDE DEF calls
        <3> QED BY <3>1, Extremes
    <2> HIDE DEF calls, days, at
    <2>4. Bond!SoldAtFirst'
        BY <1>1, <1>4, <2>1, <2>3
    <2>5. step' # "listed" /\ step' # "held"
        BY <2>1
    <2> QED BY <1>1, <2>4, <2>5 DEF BondInv
<1>7. ASSUME close = -1 \/ Bond!Trigger(close, paid) = "none" PROVE BondInv'
    <2>1. calls = {}
        BY <1>1, <1>7
    <2>2. at = exit'.day
        <3>1. exit'.day \in days /\ days \in SUBSET Int /\ \A x \in days : x <= exit'.day
            BY <1>1, <1>2 DEF LastBar
        <3> HIDE DEF days, calls
        <3> QED BY <2>1, <3>1, Extremes
    <2> HIDE DEF calls, days, at
    <2>3. IF Bond!LastDay(n) THEN step' \in {"sold", "skipped"} /\ (step' = "sold" => reason' = "max_holding_days")
                             ELSE step' = "held"
        BY <1>7 DEF Bond!Look, Bond!Sale
    <2>4. ~Bond!LastDay(n) => n < Holding
        BY <1>1, BondAssumption DEF Bond!LastDay
    <2>5. exit' = [price |-> seen'[at], day |-> at] /\ at \in 1..n
        BY <1>1, <1>2, <2>2 DEF LastBar
    <2>6. Bond!SoldAtFirst'
        <3>1. at <= Holding /\ Len(seen') <= Holding
            BY <1>1, <2>5, BondAssumption
        <3> QED BY <1>4, <2>1, <2>3, <2>5, <3>1
    <2> QED BY <1>1, <1>2, <1>5, <2>1, <2>3, <2>4, <2>6 DEF BondInv
<1> QED BY <1>6, <1>7

LEMMA BondStep == BondInv /\ (Bond!Next \/ UNCHANGED bondVars) => BondInv'
<1> SUFFICES ASSUME BondInv, Bond!Next \/ UNCHANGED bondVars PROVE BondInv'
    OBVIOUS
<1>0. bond' = bond => \A c, p : Bond!Trigger(c, p)' = Bond!Trigger(c, p)
    BY DEF Bond!Trigger
<1>1. CASE UNCHANGED bondVars
    BY <1>0, <1>1 DEF bondVars, BondInv, LastBar, Bond!SoldAtFirst
<1>2. CASE Bond!Reprice
    BY <1>2 DEF Bond!Reprice, BondInv, Bond!SoldAtFirst
<1>3. CASE Bond!EndOfPeriod
    <2>1. /\ step = "held" /\ step' \in {"sold", "skipped"} /\ (step' = "sold" => reason' = "max_holding_days")
          /\ UNCHANGED <<bond, entry, exit, seen>>
        BY <1>3 DEF Bond!EndOfPeriod, Bond!Sale
    <2> DEFINE calls == {d \in DOMAIN seen : seen[d] # -1 /\ Bond!Trigger(seen[d], entry) # "none"}
               days == {d \in DOMAIN seen : seen[d] # -1}
    <2>2. calls = {}
        BY <2>1 DEF BondInv
    <2>3. /\ DOMAIN seen = 1..Len(seen) /\ Len(seen) \in Nat /\ Len(seen) < Holding /\ LastBar(seen, exit)
          /\ Holding \in Nat
        BY <2>1, BondAssumption DEF BondInv
    <2>4. exit.day \in days /\ days \in SUBSET Int /\ \A x \in days : x <= exit.day
        BY <2>3 DEF LastBar
    <2>5. calls' = calls /\ days' = days
        BY <1>0, <2>1
    <2> HIDE DEF calls, days
    <2>6. Bond!Max(days) = exit.day
        BY <2>4, Extremes
    <2>7. exit = [price |-> seen[exit.day], day |-> exit.day] /\ exit.day <= Holding /\ Len(seen) <= Holding
        BY <2>3 DEF LastBar
    <2>8. Bond!SoldAtFirst'
        BY <2>1, <2>2, <2>5, <2>6, <2>7 DEF Bond!SoldAtFirst, calls, days
    <2> QED BY <2>1, <2>8 DEF BondInv
<1>4. ASSUME NEW open \in Closes, NEW close \in Closes, Bond!Enter(open, close) PROVE BondInv'
    <2>1. seen = <<>> /\ bond' = bond
        BY <1>4 DEF Bond!Enter, BondInv
    <2>2. CASE entry' <= 0
        BY <1>4, <2>1, <2>2 DEF Bond!Enter, BondInv, Bond!SoldAtFirst
    <2>3. CASE ~(entry' <= 0)
        <3>1. Bond!Look(close, 1, entry')
            BY <1>4, <2>3 DEF Bond!Enter
        <3>2. Len(seen) = 0 /\ seen \in Seq(Closes \cup {-1}) /\ DOMAIN seen = {} /\ Len(seen) < Holding /\ close # -1
            BY <2>1, BondAssumption
        <3>3. Bond!Look(close, Len(seen) + 1, entry')
            BY <3>1, <3>2
        <3> QED BY <2>1, <3>2, <3>3, LookStep
    <2> QED BY <2>2, <2>3
<1>5. ASSUME NEW close \in Closes \cup {-1}, Bond!Hold(close) PROVE BondInv'
    BY <1>5, LookStep DEF Bond!Hold, BondInv
<1> QED BY <1>1, <1>2, <1>3, <1>4, <1>5 DEF Bond!Next

(* For any prices, premiums and holding: a bond is sold at the first rule that *)
(* applies to a close, and otherwise at the last close of its window.          *)
THEOREM BondIsSoldAtFirst == SignalSpec => []BondSoldAtFirst
<1> DEFINE I == world = "bond" => BondInv
<1>1. SignalInit => I
    <2>1. SignalInit /\ world = "bond" => seen = <<>> /\ step = "listed"
        BY DEF SignalInit, Bond!Init
    <2>2. <<>> \in Seq(Closes \cup {-1})
        OBVIOUS
    <2>3. seen = <<>> /\ step = "listed" => BondInv
        BY <2>2 DEF BondInv, Bond!SoldAtFirst
    <2> QED BY <2>1, <2>3
<1>2. I /\ [SignalNext]_signalVars => I'
    <2>1. [SignalNext]_signalVars => world' = world /\ (world = "bond" => Bond!Next \/ UNCHANGED bondVars)
        BY DEF SignalNext, signalVars
    <2> QED BY <2>1, BondStep
<1>3. I => BondSoldAtFirst
    BY DEF BondInv, BondSoldAtFirst
<1> QED BY <1>1, <1>2, <1>3, PTL DEF SignalSpec
===============================================================================
