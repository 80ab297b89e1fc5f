------------------------------ MODULE PickRecords ------------------------------
(***************************************************************************)
(* The picks on MySQL (repositories/picks_repo.py,                         *)
(* application/pick_api_service.py).  A request of the API looks a pick up *)
(* by day, code and source and writes it in a second transaction; scans,   *)
(* imports and pages store one without looking, for the default tenant.    *)
(* The key stands for day, code and source, the outcome for what a review  *)
(* found (return, drawdown, validation).                                   *)
(***************************************************************************)
EXTENDS Integers, FiniteSets

CONSTANTS Tenants, Default, Keys, Outcomes,
          Clients,   \* requests of the API at a time
          MaxId, MaxReports

VARIABLES picks,     \* id -> pick
          lastId,    \* AUTO_INCREMENT: ids are not used again
          call,      \* client -> the creation whose lookup is done
          reports,   \* research reports: [pick, key, day, score]
          actor      \* the tenant the last step was made for
vars == <<picks, lastId, call, reports, actor>>

Idle == [step |-> "idle"]
Init == picks = << >> /\ lastId = 0 /\ call = [c \in Clients |-> Idle] /\ reports = {} /\ actor = Default

\* _get_pick_model and _get_pick_model_by_unique.
Found(tenant, id) == id \in DOMAIN picks /\ picks[id].tenant = tenant
SameKey(tenant, key) == {id \in DOMAIN picks : picks[id].key = key /\ picks[id].tenant = tenant}

\* _hydrate_pick_model: what is given as None stays as it is.
Fields(p, status) == [p EXCEPT !.status = status]
ApiFields(p) == Fields(p, "accepted")
Reviewed(p, outcome, watch) == [p EXCEPT !.status = "reviewed", !.outcome = outcome, !.watch = watch]
New(tenant, key, status) == [tenant |-> tenant, key |-> key, status |-> status, outcome |-> 0, watch |-> FALSE, archived |-> FALSE]

\* create_or_replace_pick: the pick found is changed and leaves the archive.
SlipStored(tenant, key, status) ==
    LET old == SameKey(tenant, key)
    IN [id \in (DOMAIN picks \ old) \cup {lastId + 1} |-> IF id = lastId + 1 THEN New(tenant, key, status) ELSE picks[id]]
Stored(tenant, key, status) ==
    LET old == SameKey(tenant, key)
    IN IF old = {}
       THEN [id \in DOMAIN picks \cup {lastId + 1} |-> IF id = lastId + 1 THEN New(tenant, key, status) ELSE picks[id]]
       ELSE [id \in DOMAIN picks |-> IF id \in old THEN [Fields(picks[id], status) EXCEPT !.archived = FALSE] ELSE picks[id]]
Store(tenant, key, status) ==
    /\ picks' = Stored(tenant, key, status)
    /\ lastId' = IF DOMAIN picks' \subseteq DOMAIN picks THEN lastId ELSE lastId + 1
    /\ lastId' <= MaxId

-------------------------------------------------------------------------------
\* PickApiService.create_pick: the lookup, which finds archived picks too.
Look(c, tenant, key) ==
    /\ call[c] = Idle
    /\ call' = [call EXCEPT ![c] = [step |-> "found", tenant |-> tenant, key |-> key, ids |-> SameKey(tenant, key)]]
    /\ actor' = tenant
    /\ UNCHANGED <<picks, lastId, reports>>

\* ... and the write.  A pick deleted in between is not written, but answered.
Write(c) ==
    LET q == call[c]
    IN /\ q.step = "found"
       /\ call' = [call EXCEPT ![c] = Idle] /\ actor' = q.tenant
       /\ UNCHANGED reports
       /\ IF q.ids = {} THEN Store(q.tenant, q.key, "accepted")
          ELSE /\ picks' = [id \in DOMAIN picks |-> IF id \in q.ids /\ Found(q.tenant, id) THEN ApiFields(picks[id]) ELSE picks[id]]
               /\ UNCHANGED lastId

\* update_review; batch_update_review is one after the other.
Review(tenant, id, outcome, watch) ==
    /\ Found(tenant, id)
    /\ picks' = [picks EXCEPT ![id] = Reviewed(@, outcome, watch)]
    /\ actor' = tenant
    /\ UNCHANGED <<lastId, call, reports>>

Scan(key) ==
    /\ Store(Default, key, "accepted")
    /\ actor' = Default
    /\ UNCHANGED <<call, reports>>

\* What the pages do, one by one or in a batch.
Page(id) == Found(Default, id) /\ actor' = Default /\ UNCHANGED <<lastId, call>>
Archive(id) == Page(id) /\ picks' = [picks EXCEPT ![id].archived = ~@] /\ UNCHANGED reports
Watch(id) == Page(id) /\ picks' = [picks EXCEPT ![id].watch = ~@] /\ UNCHANGED reports
Settle(id) == Page(id) /\ picks' = [picks EXCEPT ![id].status = "settled"] /\ UNCHANGED reports
Delete(id) == Page(id) /\ picks' = [other \in DOMAIN picks \ {id} |-> picks[other]] /\ UNCHANGED reports

\* update_pick may give a pick another day or code, unless another pick has it.
Move(id, key) ==
    /\ Page(id) /\ SameKey(Default, key) \subseteq {id}
    /\ picks' = [picks EXCEPT ![id] = [Fields(@, "settled") EXCEPT !.key = key]]
    /\ UNCHANGED reports

\* update_research_snapshot: the report of the day, then the pick.
Reported(id, day, score) ==
    LET old == {r \in reports : r.pick = id /\ r.day = day}
    IN (reports \ old) \cup {[pick |-> id, key |-> k, day |-> day, score |-> score] : k \in IF old = {} THEN {picks[id].key} ELSE {r.key : r \in old}}
Research(id, day, score) ==
    /\ Page(id)
    /\ reports' = Reported(id, day, score) /\ Cardinality(reports') <= MaxReports
    /\ picks' = [picks EXCEPT ![id].watch = (score > 0)]

Next ==
    \/ \E c \in Clients : Write(c) \/ \E t \in Tenants, k \in Keys : Look(c, t, k)
    \/ \E t \in Tenants, id \in DOMAIN picks, o \in Outcomes, w \in BOOLEAN : Review(t, id, o, w)
    \/ \E k \in Keys : Scan(k)
    \/ \E id \in DOMAIN picks : Archive(id) \/ Watch(id) \/ Settle(id) \/ Delete(id) \/ \E k \in Keys : Move(id, k)
    \/ \E id \in DOMAIN picks, day \in 1..2, score \in {0, 1} : Research(id, day, score)

Spec == Init /\ [][Next]_vars

-------------------------------------------------------------------------------
(* Storing a pick again, by a scan or by requests that overlap, keeps its id,  *)
(* to which its research reports belong, and the outcome reviewed: a step that *)
(* gives an id removes none, and only a review changes an outcome.             *)
OutcomeKept ==
    [][/\ lastId' # lastId => DOMAIN picks \subseteq DOMAIN picks'
       /\ picks' # picks => \A id \in DOMAIN picks \cap DOMAIN picks' :
             picks'[id].outcome # picks[id].outcome => picks'[id].status = "reviewed"]_vars

(* What is done for one tenant changes, stores or deletes no pick of another.  *)
TenantsApart ==
    [][picks' # picks => \A id \in DOMAIN picks \cup DOMAIN picks' :
          \/ id \in DOMAIN picks \cap DOMAIN picks' /\ picks'[id] = picks[id]
          \/ id \in DOMAIN picks /\ picks[id].tenant = actor'
          \/ id \notin DOMAIN picks /\ picks'[id].tenant = actor']_vars
===============================================================================
