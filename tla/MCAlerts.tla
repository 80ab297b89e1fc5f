-------------------------------- MODULE MCAlerts --------------------------------
(***************************************************************************)
(* One run for the parts alerts are made of.  The parts share no state     *)
(* here, so each behaviour picks the part it is about and the others stay  *)
(* at their initial state: their state spaces add up.                      *)
(***************************************************************************)
EXTENDS PushDelivery, Sequences  \* in thread mode

CONSTANTS Ids, Procs, Cap, MaxOps, \* of the lists: items, requests, length and bound
          Secrets, EnvKeys,        \* of the channel secrets
          Rules, Candidates, Limit, MaxPasses \* of the evaluation
ASSUME ListAssumption == Cap \in Nat \ {0} /\ MaxOps \in Nat
\* Rules, and picks and rows, are told apart by their ids.
ASSUME EvaluationAssumption ==
    /\ IsFiniteSet(Candidates) /\ Limit \in Nat
    /\ \A c \in Candidates : c.id \in Nat /\ \A d \in Candidates : c.id = d.id => c = d
    /\ \A r, s \in Rules : r.id = s.id => r = s

VARIABLES world,
          items, edits, events, begun, ideal, clean,                    \* Settings: lists
          key, stored, typed, ruined,                                   \* Settings: secrets
          rules, data, passes, todo, notes, pushes, settled                \* AlertRules

pushVars == vars
listVars == <<items, edits, events, begun, ideal, clean>>
secretVars == <<key, stored, typed, ruined>>
ruleVars == <<rules, data, passes, todo, notes, pushes, settled>>
alertVars == <<world, pushVars, listVars, secretVars, ruleVars>>

\* Worker mode over two seconds, without faults.
Workers == INSTANCE PushDelivery WITH Keys <- {1, 2}, Callers <- {"c1", "c2"}, MaxTasks <- 2, MaxRetries <- 1,
               MaxFaults <- 0, SharedPayload <- FALSE, ChannelStates <- {"enabled", "missing"}
Kept == INSTANCE Settings WITH call <- edits

Rule == [id |-> 1, tenant |-> 1, enabled |-> TRUE, scope |-> "pick", page |-> "", metric |-> "none",
         field |-> "number", op |-> ">=", value |-> {5}, target |-> {}, channels |-> {}]
SomeRules == {[Rule EXCEPT !.op = "!=", !.channels = {"in_app", "external"}],
              [Rule EXCEPT !.id = 2, !.metric = "drawdown_abs_gte", !.target = {"x"}, !.channels = {"external"}, !.enabled = FALSE],
              [Rule EXCEPT !.id = 3, !.tenant = 2, !.metric = "score_gte"],
              [Rule EXCEPT !.id = 4, !.field = "status", !.op = "not_in", !.value = {"closed"}, !.page = "scans"]}
Pick == [id |-> 1, kind |-> "pick", tenant |-> 1, open |-> TRUE, symbol |-> "x", watch |-> TRUE,
         status |-> {"watching"}, risk |-> {"high"}, number |-> {-7}]
SomeCandidates == {Pick, [Pick EXCEPT !.id = 2, !.number = {8}],
                   [Pick EXCEPT !.id = 4, !.kind = "scan", !.number = {6}, !.tenant = 2, !.status = {}],
                   [Pick EXCEPT !.id = 5, !.kind = "scan", !.status = {"open"}],
                   [Pick EXCEPT !.id = 6, !.kind = "scan", !.open = FALSE, !.number = {9}, !.tenant = 2]}
Evaluation == INSTANCE AlertRules

AlertInit == /\ world \in {"threads", "workers", "lists", "secrets", "rules"}
             /\ Init /\ now = IF world = "workers" THEN 1 ELSE 2
             /\ Kept!Init /\ (world # "secrets" => key = "none")
             /\ Evaluation!Init

AlertNext ==
    \/ world = "threads" /\ Next /\ UNCHANGED <<world, listVars, secretVars, ruleVars>>
    \/ world = "workers" /\ Workers!Next /\ UNCHANGED <<world, listVars, secretVars, ruleVars>>
    \/ world = "lists" /\ Kept!ListNext /\ UNCHANGED <<world, pushVars, secretVars, ruleVars>>
    \/ world = "secrets" /\ Kept!SecretNext /\ UNCHANGED <<world, pushVars, listVars, ruleVars>>
    \/ world = "rules" /\ Evaluation!Next /\ UNCHANGED <<world, pushVars, listVars, secretVars>>

AlertSpec == AlertInit /\ [][AlertNext]_alertVars /\ Workers!Fairness

-------------------------------------------------------------------------------
(* In worker mode a queued delivery gets an outcome, unless its request joined *)
(* a task that was still active.                                               *)
DeliverySettles == world = "workers" => Workers!QueuedSettles

(* Rules and channels kept as JSON lists never hold an item twice, the counts  *)
(* of hits belong to items that were there, and requests one after the other   *)
(* lose nothing; an edit of a channel keeps the secret it does not touch.      *)
SettingsKept == Kept!UniqueItems /\ Kept!CountsAreReal /\ Kept!SerialListIsExact /\ Kept!SecretSurvivesEdits

(* A rule notifies of its own tenant's records only, and a second evaluation   *)
(* of unchanged data adds nothing.                                             *)
EvaluationSound == []Evaluation!OwnTenantOnly /\ Evaluation!ReevaluationAddsNothing
===============================================================================
