------------------------------ MODULE AlertRules ------------------------------
(***************************************************************************)
(* Evaluation of alert rules (application/alert_service.py): a pass loads  *)
(* the rules of every user, matches each against the picks of its tenant   *)
(* or the rows of its tenant's completed scans, and notifies.  An optional *)
(* value is a set of at most one element.                                  *)
(***************************************************************************)
EXTENDS Integers, FiniteSets, FiniteSetsExt

CONSTANTS Rules,       \* rules users may have
          Candidates,  \* picks and scan rows there may be
          Limit,       \* limit_per_rule
          MaxPasses    \* bound

VARIABLES rules,   \* stored rules
          data,    \* the picks and scan rows there are
          passes,  \* passes begun: the second of matched_at
          todo,    \* rules of the snapshot the pass has still to evaluate
          notes,   \* dedupe keys of in-app notifications
          pushes,  \* keys handed to external push
          settled  \* rules evaluated since the data last changed

vars == <<rules, data, passes, todo, notes, pushes, settled>>

ScanMetrics == {"score_gte", "confidence_lte", "risk_eq", "signal_transition"}

\* _rule_scope: the page and the metric can make a scan rule of a pick rule.
Scope(r) == IF r.scope = "scan" \/ r.page = "scans" \/ r.metric \in ScanMetrics THEN "scan" ELSE "pick"

\* A number that is missing counts as zero in a metric.
Number(x) == IF x = {} THEN 0 ELSE Max(x)
Size(n) == IF n < 0 THEN -n ELSE n

\* _compare and _compare_numeric: only != and not_in hold of a missing value.
Compare(x, op, y) == CASE op = ">"  -> \E a \in x, b \in y : a > b
                       [] op = ">=" -> \E a \in x, b \in y : a >= b
                       [] op = "<"  -> \E a \in x, b \in y : a < b
                       [] op = "<=" -> \E a \in x, b \in y : a <= b
                       [] op = "==" -> x = y
                       [] op = "!=" -> x # y
                       [] op = "in" -> x # {} /\ x \subseteq y
                       [] op = "not_in" -> x = {} \/ ~(x \subseteq y)

\* _matches_metric: a metric of the other scope matches nothing.
MatchesMetric(r, c) ==
    /\ c.kind = IF r.metric \in ScanMetrics THEN "scan" ELSE "pick"
    /\ CASE r.metric = "watching_high_risk" -> (c.watch \/ c.status = {"watching"}) /\ c.risk = {"high"}
         [] r.metric = "drawdown_abs_gte" -> Size(Number(c.number)) >= Number(r.value)
         [] r.metric \in {"holding_days_gte", "score_gte"} -> Number(c.number) >= Number(r.value)
         [] r.metric = "confidence_lte" -> Number(c.number) <= Number(r.value)
         [] r.metric \in {"status_eq", "signal_transition"} -> c.status = r.value
         [] r.metric = "risk_eq" -> c.risk = r.value

Matches(r, c) == IF r.metric = "none" THEN Compare(c[r.field], r.op, r.value) ELSE MatchesMetric(r, c)

\* _picks_candidates and _target_matches
PickCandidates(r) == {c \in data : c.kind = "pick" /\ c.open /\ c.tenant = r.tenant}

\* _scan_candidates: rows of completed scan tasks.
ScanCandidates(r) == {c \in data : c.kind = "scan" /\ c.open /\ c.tenant = r.tenant}

CandidatesOf(r) == {c \in IF Scope(r) = "pick" THEN PickCandidates(r) ELSE ScanCandidates(r) :
                        r.target = {} \/ r.target = {c.symbol}}

\* Newest first, until the limit of the rule is reached.
Chosen(r) == LET all == {c \in CandidatesOf(r) : Matches(r, c)}
                 n == Min({Cardinality(all), Max({1, Limit})})
             IN CHOOSE some \in kSubset(n, all) : \A c \in some, d \in all \ some : c.id > d.id

\* _channels: a rule without channels notifies in the app.
Channels(r) == IF r.channels = {} THEN {"in_app"} ELSE r.channels

\* _dedupe_key has no time in it; _delivery_dedupe_key has, through matched_at.
SlipNoteKey(r, c) == [rule |-> r.id, scope |-> Scope(r), entity |-> c.id, metric |-> r.metric, at |-> passes]
NoteKey(r, c) == [rule |-> r.id, scope |-> Scope(r), entity |-> c.id, metric |-> r.metric, at |-> 0]
PushKey(r, c) == [rule |-> r.id, scope |-> Scope(r), entity |-> c.id, metric |-> r.metric, at |-> passes]

Init == /\ rules = Rules
        /\ data = {}
        /\ passes = 0
        /\ todo = {}
        /\ notes = {}
        /\ pushes = {}
        /\ settled = {}

Arrive(c) == /\ c \notin data
             /\ data' = data \cup {c}
             /\ settled' = {}
             /\ UNCHANGED <<rules, passes, todo, notes, pushes>>

Drop(r) == /\ r \in rules
           /\ rules' = rules \ {r}
           /\ UNCHANGED <<data, passes, todo, notes, pushes, settled>>

\* evaluate_all reads every rule once; rules that are off are skipped.
BeginPass == /\ todo = {} /\ passes < MaxPasses
             /\ passes' = passes + 1
             /\ todo' = {r \in rules : r.enabled}
             /\ UNCHANGED <<rules, data, notes, pushes, settled>>

\* _evaluate_rule, on the data of now and the rule of the snapshot
EvaluateRule(r) ==
    /\ r \in todo
    /\ todo' = todo \ {r}
    /\ notes' = notes \cup IF "in_app" \in Channels(r) THEN {NoteKey(r, c) : c \in Chosen(r)} ELSE {}
    /\ pushes' = pushes \cup IF Channels(r) # {"in_app"} THEN {PushKey(r, c) : c \in Chosen(r)} ELSE {}
    /\ settled' = settled \cup {r}
    /\ UNCHANGED <<rules, data, passes>>

Next == \/ BeginPass
        \/ \E c \in Candidates : Arrive(c)
        \/ \E r \in Rules : Drop(r) \/ EvaluateRule(r)

Spec == Init /\ [][Next]_vars

-------------------------------------------------------------------------------
RuleOf(k) == CHOOSE r \in Rules : r.id = k.rule
EntityOf(k) == CHOOSE c \in Candidates : c.id = k.entity

(* Nobody is told, in the app or outside, of an entity of another tenant or of *)
(* an archived pick or unfinished scan.                                        *)
OwnTenantOnly == \A k \in notes \cup pushes :
                     EntityOf(k).tenant = RuleOf(k).tenant /\ EntityOf(k).open

(* Evaluating a rule again on data that have not changed makes no new in-app   *)
(* notification, in whatever pass: it counts up those there are.               *)
ReevaluationAddsNothing ==
    [][\A r \in Rules : EvaluateRule(r) /\ r \in settled => notes' = notes]_vars
===============================================================================
