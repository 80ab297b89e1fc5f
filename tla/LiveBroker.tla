------------------------------ MODULE LiveBroker ------------------------------
(***************************************************************************)
(* Guarded live orders: application/live_broker_service.py on top of       *)
(* repositories/live_broker_repo.py.                                       *)
(*                                                                         *)
(* A request to submit or to cancel an order looks up its idempotency key, *)
(* passes the guards, calls the adapter of the broker and records what     *)
(* happened.  Each of these is one action; requests of one tenant run      *)
(* concurrently and share nothing but the table live_broker_requests.  The *)
(* broker is external: `landed` counts the orders and cancels it accepted. *)
(*                                                                         *)
(* An intent stands for its request_hash.  Submit and cancel intents have  *)
(* different fields, so they are different intents; KindOf tells which.    *)
(***************************************************************************)
EXTENDS Naturals, FiniteSets

CONSTANTS
    Clients,     \* concurrent API requests
    Keys,        \* idempotency keys
    EmptyKey,    \* the key of a request that names none
    Intents,     \* normalized order and cancel intents
    BadIntents,  \* the intents validation rejects
    KindOf,      \* intent -> "submit" or "cancel"
    Requests,    \* the requests clients send
    Envs,        \* deployments: what the LIVE_* environment variables say
    Outcomes,    \* what a call of the adapter can lead to
    RateLimit,   \* LIVE_BROKER_RATE_LIMIT_PER_MIN, 0 for none
    NoRow, NoRequest,
    MaxCalls,    \* bound: calls of the adapter
    MaxMinutes,  \* bound: minutes that pass
    MaxRestarts  \* bound: restarts of the service

Kinds == {"submit", "cancel"}
\* request_dry_run is False, and live_order_ack is the confirmation phrase.
Request == [key : Keys, intent : Intents, live : BOOLEAN, ack : BOOLEAN]
Env == [enabled : BOOLEAN, dry : BOOLEAN, submitOK : BOOLEAN, cancelOK : BOOLEAN]
Statuses == {"blocked", "dry_run", "rejected", "submitted", "cancel_submitted",
             "broker_rejected", "broker_error"}
Row == [intent : Intents, status : Statuses]
\* A call that lands is an order or a cancel the broker executes.
Outcome == [landed : BOOLEAN, status : {"ok", "blocked", "broker_rejected", "broker_error"}]

ASSUME IntentAssumption == KindOf \in [Intents -> Kinds] /\ BadIntents \subseteq Intents
ASSUME RequestAssumption == Requests \subseteq Request
ASSUME EnvAssumption == Envs \subseteq Env
ASSUME OutcomeAssumption ==
    /\ Outcomes \subseteq Outcome
    /\ \A o \in Outcomes : o.status = "ok" => o.landed
ASSUME NullAssumption == NoRow \notin Row
ASSUME LimitAssumption == /\ RateLimit \in Nat /\ MaxCalls \in Nat
                          /\ MaxMinutes \in Nat /\ MaxRestarts \in Nat

VARIABLES
    env,      \* the deployment that runs
    rows,     \* live_broker_requests: key -> its row
    recent,   \* keys whose row was created in the last 60 seconds
    cpc, creq, cstatus,  \* each client: where it is, its request, its result
    landed,   \* history: key -> intent -> how often the broker accepted it
    replays,  \* history: the (key, intent) pairs answered idempotent_replay
    calls, minutes, restarts

vars == <<env, rows, recent, cpc, creq, cstatus, landed, replays,
          calls, minutes, restarts>>

\* Statuses a request may be repeated after.
Retryable == {"blocked", "dry_run", "rejected", "broker_rejected", "broker_error"}

Kind(q) == KindOf[q.intent]
Known(q) == rows[q.key] # NoRow
Conflict(q) == Known(q) /\ rows[q.key].intent # q.intent

\* A slip: the request alone decides.
SlipDryRun(q) == ~q.live
\* _load_config: dry run unless both the environment and the request say no.
DryRun(q) == ~(~env.dry /\ q.live)

Confirmed(q) == env.enabled /\ ~DryRun(q) /\ q.ack

\* A slip: knows only one of the statuses of a request that went through.
SlipReplay(q) == Known(q) /\ rows[q.key].status = "submitted" /\ Confirmed(q)
Replay(q) == Known(q) /\ rows[q.key].status \notin Retryable /\ Confirmed(q)
\* validate_order_intent, validate_cancel_intent
Valid(q) == q.intent \notin BadIntents /\ q.key # EmptyKey

\* validate_config: the URL a submit needs is only required of a live deployment.
ConfigOK(q) == IF Kind(q) = "submit" THEN env.submitOK \/ ~env.enabled \/ DryRun(q)
               ELSE env.cancelOK

\* _rate_limited and count_recent_requests; cancel_order does not ask.
RateLimited(q) ==
    /\ Kind(q) = "submit" /\ RateLimit > 0
    /\ Cardinality({k \in recent : KindOf[rows[k].intent] = "submit"}) >= RateLimit

\* What the first guard that stops a request records, or "call".
Verdict(q) ==
    IF RateLimited(q) THEN "blocked"
    ELSE IF ~Valid(q) \/ ~ConfigOK(q) THEN "rejected"
    ELSE IF ~env.enabled THEN "blocked"
    ELSE IF DryRun(q) THEN "dry_run"
    ELSE IF ~q.ack THEN "blocked"
    ELSE "call"

\* A slip: the raw answer of the adapter.
\* The status of a call, as the generic HTTP adapter reports a 2xx answer.
Reported(q, o) ==
    IF o.status # "ok" THEN o.status
    ELSE IF Kind(q) = "submit" THEN "submitted" ELSE "cancel_submitted"

Init ==
    /\ env \in Envs
    /\ rows = [k \in Keys |-> NoRow]
    /\ recent = {}
    /\ cpc = [c \in Clients |-> "idle"]
    /\ creq = [c \in Clients |-> NoRequest]
    /\ cstatus = [c \in Clients |-> "blocked"]
    /\ landed = [k \in Keys |-> [i \in Intents |-> 0]]
    /\ replays = {}
    /\ calls = 0 /\ minutes = 0 /\ restarts = 0

\* get_request.  A replay is answered at once; a conflict is too, and changes
\* nothing.
Ask(c, q) ==
    /\ cpc[c] = "idle"
    /\ \/ /\ ~Conflict(q) /\ Replay(q)
          /\ replays' = replays \cup {<<q.key, q.intent>>}
          /\ UNCHANGED <<cpc, creq>>
       \/ /\ ~Conflict(q) /\ ~Replay(q)
          /\ cpc' = [cpc EXCEPT ![c] = "guards"]
          /\ creq' = [creq EXCEPT ![c] = q]
          /\ UNCHANGED replays
    /\ UNCHANGED <<env, rows, recent, cstatus, landed, calls, minutes, restarts>>

\* The count of recent requests and the guards after it.
Guard(c) ==
    LET v == Verdict(creq[c])
    IN  /\ cpc[c] = "guards"
        /\ \/ /\ v = "call"
              /\ cpc' = [cpc EXCEPT ![c] = "call"]
              /\ UNCHANGED cstatus
           \/ /\ v # "call"
              /\ cpc' = [cpc EXCEPT ![c] = "record"]
              /\ cstatus' = [cstatus EXCEPT ![c] = v]
        /\ UNCHANGED <<env, rows, recent, creq, landed, replays, calls, minutes, restarts>>

\* The adapter sends the request; an exception or a timeout is a broker_error,
\* whether or not the order got through.
Call(c, o) ==
    LET q == creq[c]
    IN  /\ cpc[c] = "call"
        /\ calls < MaxCalls
        /\ calls' = calls + 1
        /\ landed' = IF o.landed THEN [landed EXCEPT ![q.key][q.intent] = @ + 1] ELSE landed
        /\ cstatus' = [cstatus EXCEPT ![c] = Reported(q, o)]
        /\ cpc' = [cpc EXCEPT ![c] = "record"]
        /\ UNCHANGED <<env, rows, recent, creq, replays, minutes, restarts>>

\* A slip: an upsert that does not compare the request hash.
SlipRecord(c) ==
    LET q == creq[c]
    IN  /\ cpc[c] = "record"
        /\ rows' = [rows EXCEPT ![q.key] =
                      [intent |-> IF Known(q) THEN @.intent ELSE q.intent, status |-> cstatus[c]]]
        /\ recent' = IF Known(q) THEN recent ELSE recent \cup {q.key}
        /\ cpc' = [cpc EXCEPT ![c] = "idle"]
        /\ creq' = [creq EXCEPT ![c] = NoRequest]
        /\ UNCHANGED <<env, cstatus, landed, replays, calls, minutes, restarts>>

\* record_request: insert, or update the status of a row with the same hash.
\* created_at is set by the insert only.
Record(c) ==
    LET q == creq[c]
    IN  /\ cpc[c] = "record"
        /\ rows' = IF Conflict(q) THEN rows
                   ELSE [rows EXCEPT ![q.key] = [intent |-> q.intent, status |-> cstatus[c]]]
        /\ recent' = IF Known(q) THEN recent ELSE recent \cup {q.key}
        /\ cpc' = [cpc EXCEPT ![c] = "idle"]
        /\ creq' = [creq EXCEPT ![c] = NoRequest]
        /\ UNCHANGED <<env, cstatus, landed, replays, calls, minutes, restarts>>

\* Sixty seconds without a new row.
Minute ==
    /\ minutes < MaxMinutes
    /\ minutes' = minutes + 1
    /\ recent' = {}
    /\ UNCHANGED <<env, rows, cpc, creq, cstatus, landed, replays, calls, restarts>>

\* The service dies, or is stopped, and comes back with the environment e.
Restart(e) ==
    /\ restarts < MaxRestarts
    /\ restarts' = restarts + 1
    /\ env' = e
    /\ cpc' = [c \in Clients |-> "idle"]
    /\ creq' = [c \in Clients |-> NoRequest]
    /\ UNCHANGED <<rows, recent, cstatus, landed, replays, calls, minutes>>

Next ==
    \/ \E c \in Clients : \/ \E q \in Requests : Ask(c, q)
                          \/ Guard(c)
                          \/ \E o \in Outcomes : Call(c, o)
                          \/ Record(c)
    \/ Minute
    \/ \E e \in Envs : Restart(e)

Spec == Init /\ [][Next]_vars

-----------------------------------------------------------------------------
(* Properties *)

\* Shapes of the table and of the requests under way.
TypeOK ==
    /\ env \in Env
    /\ rows \in [Keys -> Row \cup {NoRow}]
    /\ recent \subseteq Keys
    /\ cpc \in [Clients -> {"idle", "guards", "call", "record"}]
    /\ creq \in [Clients -> Request \cup {NoRequest}]
    /\ cstatus \in [Clients -> Statuses]
    /\ landed \in [Keys -> [Intents -> Nat]]
    /\ replays \subseteq Keys \X Intents
    /\ calls \in Nat /\ minutes \in Nat /\ restarts \in Nat
    /\ \A c \in Clients : cpc[c] # "idle" => creq[c] \in Request

\* A caller who is told idempotent_replay can rely on it: the broker accepted
\* this intent under this key, whichever requests with the same key, with other
\* bodies, from other deployments or cut off by a restart came in between.
ReplayTruthful == \A r \in replays : landed[r[1]][r[2]] > 0

\* Money moves only behind every gate: a call of the adapter happens in an
\* enabled deployment without dry run, for a valid request that asked for it and
\* carries the confirmation, also when the deployment changes between requests.
Armed(q) == env.enabled /\ ~env.dry /\ q.live /\ q.ack /\ Valid(q)
OnlyArmedCalls ==
    [][calls' # calls => \E c \in Clients : cpc[c] = "call" /\ cpc'[c] = "record" /\ Armed(creq[c])]_vars

\* What the contract says of idempotency keys (see OrderOnce).
Once == INSTANCE OrderOnce
AtMostOnce == Once!Spec
=============================================================================
