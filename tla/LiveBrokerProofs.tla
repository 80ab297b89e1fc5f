--------------------------- MODULE LiveBrokerProofs ---------------------------
(***************************************************************************)
(* Proofs about LiveBroker, for any number of concurrent requests, keys,   *)
(* intents, deployments and restarts.                                      *)
(***************************************************************************)
EXTENDS LiveBroker, TLAPS

USE IntentAssumption, RequestAssumption, EnvAssumption, OutcomeAssumption, LimitAssumption
    DEF Kinds, Env

Through == {"submitted", "cancel_submitted"}

LEMMA VerdictFacts ==
    ASSUME NEW q
    PROVE  /\ Verdict(q) \in (Statuses \ Through) \cup {"call"}
           /\ Verdict(q) = "call" => Armed(q)
BY DEF Verdict, Statuses, Through, Armed, DryRun

LEMMA ReportedFacts ==
    ASSUME NEW q \in Request, NEW o \in Outcomes
    PROVE  /\ Reported(q, o) \in Statuses
           /\ Reported(q, o) \in Through => o.landed
BY DEF Reported, Statuses, Through, Outcome

LEMMA TypeInit == Init => TypeOK
BY DEF Init, TypeOK, Statuses, Request

LEMMA TypeNext == TypeOK /\ [Next]_vars => TypeOK'
<1> SUFFICES ASSUME TypeOK, [Next]_vars PROVE TypeOK'
    OBVIOUS
<1> USE DEF TypeOK
<1>1. ASSUME NEW c \in Clients, NEW q \in Requests, Ask(c, q) PROVE TypeOK'
    <2>1. q \in Request /\ <<q.key, q.intent>> \in Keys \X Intents
        BY DEF Request
    <2>2. replays' \subseteq Keys \X Intents
        BY <1>1, <2>1 DEF Ask
    <2>3. /\ cpc' \in [Clients -> {"idle", "guards", "call", "record"}]
          /\ creq' \in [Clients -> Request \cup {NoRequest}]
          /\ \A d \in Clients : cpc'[d] # "idle" => creq'[d] \in Request
        BY <1>1, <2>1 DEF Ask
    <2>4. QED
        BY <1>1, <2>2, <2>3 DEF Ask
<1>2. ASSUME NEW c \in Clients, Guard(c) PROVE TypeOK'
    <2>1. Verdict(creq[c]) # "call" => Verdict(creq[c]) \in Statuses
        BY VerdictFacts
    <2>2. cstatus' \in [Clients -> Statuses]
        BY <1>2, <2>1 DEF Guard
    <2>3. QED
        BY <1>2, <2>2 DEF Guard
<1>3. ASSUME NEW c \in Clients, NEW o \in Outcomes, Call(c, o) PROVE TypeOK'
    <2>1. creq[c] \in Request
        BY <1>3 DEF Call
    <2>2. Kind(creq[c]) \in Kinds /\ Reported(creq[c], o) \in Statuses
        BY <2>1, ReportedFacts DEF Kind, Request
    <2>3. landed' \in [Keys -> [Intents -> Nat]]
        BY <1>3, <2>1 DEF Call, Request
    <2>4. calls' \in Nat
        BY <1>3, <2>2 DEF Call
    <2>5. QED
        BY <1>3, <2>1, <2>2, <2>3, <2>4 DEF Call
<1>4. ASSUME NEW c \in Clients, Record(c) PROVE TypeOK'
    BY <1>4 DEF Record, Request, Row
<1>5. CASE Minute
    BY <1>5 DEF Minute
<1>6. ASSUME NEW e \in Envs, Restart(e) PROVE TypeOK'
    BY <1>6 DEF Restart
<1>7. CASE UNCHANGED vars
    BY <1>7 DEF vars
<1>8. QED
    BY <1>1, <1>2, <1>3, <1>4, <1>5, <1>6, <1>7 DEF Next

\* The table and the requests under way always have the shapes the code expects.
THEOREM TypeCorrect == Spec => []TypeOK
BY TypeInit, TypeNext, PTL DEF Spec

-----------------------------------------------------------------------------
(* What is recorded as accepted was accepted *)

Truthful ==
    /\ \A k \in Keys : rows[k] # NoRow /\ rows[k].status \in Through
                       => landed[k][rows[k].intent] > 0
    /\ \A c \in Clients : cpc[c] = "record" /\ cstatus[c] \in Through
                          => landed[creq[c].key][creq[c].intent] > 0
    /\ ReplayTruthful

LEMMA TruthfulInit == Init => Truthful
BY DEF Init, Truthful, ReplayTruthful

LEMMA LandedGrows ==
    ASSUME TypeOK, Truthful,
           \A k \in Keys, i \in Intents : landed[k][i] > 0 => landed'[k][i] > 0,
           UNCHANGED <<rows, replays>>,
           \A c \in Clients : cpc'[c] = "record" /\ cstatus'[c] \in Through
                              => landed'[creq'[c].key][creq'[c].intent] > 0
    PROVE  Truthful'
BY DEF TypeOK, Truthful, ReplayTruthful, Row

LEMMA TruthfulNext == TypeOK /\ Truthful /\ [Next]_vars => Truthful'
<1> SUFFICES ASSUME TypeOK, Truthful, [Next]_vars PROVE Truthful'
    OBVIOUS
<1>1. ASSUME NEW c \in Clients, NEW q \in Requests, Ask(c, q) PROVE Truthful'
    <2>1. UNCHANGED <<rows, landed, cstatus>>
          /\ \A d \in Clients : cpc'[d] = "record" => cpc[d] = "record" /\ creq'[d] = creq[d]
        BY <1>1 DEF Ask, TypeOK
    <2>2. CASE UNCHANGED replays
        BY <2>1, <2>2 DEF Truthful, ReplayTruthful
    <2>3. CASE ~UNCHANGED replays
        <3>1. replays' = replays \cup {<<q.key, q.intent>>} /\ Replay(q) /\ ~Conflict(q)
            BY <1>1, <2>3 DEF Ask
        <3>2. rows[q.key].status \in Through /\ rows[q.key].intent = q.intent
              /\ rows[q.key] # NoRow /\ q.key \in Keys
            BY <3>1 DEF Replay, Conflict, Known, TypeOK, Row, Statuses, Retryable, Through, Request
        <3>3. landed[q.key][q.intent] > 0
            BY <3>2 DEF Truthful
        <3>4. QED
            BY <2>1, <3>1, <3>3 DEF Truthful, ReplayTruthful
    <2>4. QED
        BY <2>2, <2>3
<1>2. ASSUME NEW c \in Clients, Guard(c) PROVE Truthful'
    <2>1. UNCHANGED <<rows, landed, replays, creq>>
          /\ \A d \in Clients : d # c => cpc'[d] = cpc[d] /\ cstatus'[d] = cstatus[d]
        BY <1>2 DEF Guard, TypeOK
    <2>2. cpc'[c] = "record" => cstatus'[c] \notin Through
        BY <1>2, VerdictFacts DEF Guard, TypeOK, Through
    <2>3. QED
        BY <2>1, <2>2 DEF Truthful, ReplayTruthful
<1>3. ASSUME NEW c \in Clients, NEW o \in Outcomes, Call(c, o) PROVE Truthful'
    <2>1. creq[c] \in Request /\ UNCHANGED <<rows, replays, creq>>
        BY <1>3 DEF Call, TypeOK
    <2>2. /\ \A d \in Clients : d # c => cpc'[d] = cpc[d] /\ cstatus'[d] = cstatus[d]
          /\ cstatus'[c] = Reported(creq[c], o)
        BY <1>3 DEF Call, TypeOK
    <2>3. \A k \in Keys, i \in Intents : landed[k][i] > 0 => landed'[k][i] > 0
        BY <1>3, <2>1 DEF Call, TypeOK, Request
    <2>4. o.landed => landed'[creq[c].key][creq[c].intent] > 0
        BY <1>3, <2>1 DEF Call, TypeOK, Request
    <2>5. ASSUME NEW d \in Clients, cpc'[d] = "record", cstatus'[d] \in Through
          PROVE  landed'[creq'[d].key][creq'[d].intent] > 0
        <3>1. CASE d = c
            BY <3>1, <2>1, <2>2, <2>4, <2>5, ReportedFacts
        <3>2. CASE d # c
            <4>1. creq[d] \in Request /\ landed[creq[d].key][creq[d].intent] > 0
                BY <3>2, <2>2, <2>5 DEF Truthful, TypeOK
            <4>2. QED
                BY <4>1, <2>1, <2>3 DEF Request
        <3>3. QED
            BY <3>1, <3>2
    <2>6. QED
        BY <2>1, <2>3, <2>5, LandedGrows
<1>4. ASSUME NEW c \in Clients, Record(c) PROVE Truthful'
    <2>1. creq[c] \in Request /\ cpc[c] = "record"
        BY <1>4 DEF Record, TypeOK
    <2>2. UNCHANGED <<landed, replays, cstatus>>
          /\ \A d \in Clients : cpc'[d] = "record" => cpc[d] = "record" /\ creq'[d] = creq[d]
        BY <1>4 DEF Record, TypeOK
    <2>3. ASSUME NEW k \in Keys, rows'[k] # NoRow, rows'[k].status \in Through
          PROVE  landed[k][rows'[k].intent] > 0
        <3>1. CASE rows'[k] = rows[k]
            BY <3>1, <2>3 DEF Truthful
        <3>2. CASE rows'[k] # rows[k]
            <4>1. k = creq[c].key /\ rows'[k] = [intent |-> creq[c].intent, status |-> cstatus[c]]
                BY <1>4, <2>1, <3>2 DEF Record, TypeOK, Request
            <4>2. QED
                BY <4>1, <2>1, <2>3 DEF Truthful
        <3>3. QED
            BY <3>1, <3>2
    <2>4. QED
        BY <2>2, <2>3 DEF Truthful, ReplayTruthful
<1>5. CASE Minute
    BY <1>5 DEF Minute, Truthful, ReplayTruthful
<1>6. ASSUME NEW e \in Envs, Restart(e) PROVE Truthful'
    BY <1>6 DEF Restart, Truthful, ReplayTruthful
<1>7. CASE UNCHANGED vars
    BY <1>7 DEF vars, Truthful, ReplayTruthful
<1>8. QED
    BY <1>1, <1>2, <1>3, <1>4, <1>5, <1>6, <1>7 DEF Next

\* A replay answer is never wrong, whatever concurrent requests with the same key
\* record and whenever the service restarts.
THEOREM ReplayIsTruthful == Spec => []ReplayTruthful
<1>1. Init => TypeOK /\ Truthful
    BY TypeInit, TruthfulInit
<1>2. TypeOK /\ Truthful /\ [Next]_vars => (TypeOK /\ Truthful)'
    BY TypeNext, TruthfulNext
<1>3. Truthful => ReplayTruthful
    BY DEF Truthful
<1>4. QED
    BY <1>1, <1>2, <1>3, PTL DEF Spec

-----------------------------------------------------------------------------
(* The gates: a request that reached the call passed them in this deployment *)

Gated == \A c \in Clients : cpc[c] = "call" => Armed(creq[c])

LEMMA GatedNext == TypeOK /\ Gated /\ [Next]_vars => Gated'
<1> SUFFICES ASSUME TypeOK, Gated, [Next]_vars PROVE Gated'
    OBVIOUS
<1> USE DEF Gated, Armed, Valid
<1>1. ASSUME NEW c \in Clients, NEW q \in Requests, Ask(c, q) PROVE Gated'
    BY <1>1 DEF Ask, TypeOK
<1>2. ASSUME NEW c \in Clients, Guard(c) PROVE Gated'
    BY <1>2, VerdictFacts DEF Guard, TypeOK
<1>3. ASSUME NEW c \in Clients, NEW o \in Outcomes, Call(c, o) PROVE Gated'
    BY <1>3 DEF Call, TypeOK
<1>4. ASSUME NEW c \in Clients, Record(c) PROVE Gated'
    BY <1>4 DEF Record, TypeOK
<1>5. CASE Minute
    BY <1>5 DEF Minute
<1>6. ASSUME NEW e \in Envs, Restart(e) PROVE Gated'
    BY <1>6 DEF Restart
<1>7. CASE UNCHANGED vars
    BY <1>7 DEF vars
<1>8. QED
    BY <1>1, <1>2, <1>3, <1>4, <1>5, <1>6, <1>7 DEF Next

LEMMA GatedStep ==
    ASSUME TypeOK, Gated, [Next]_vars
    PROVE  [\E c \in Clients : cpc[c] = "call" /\ cpc'[c] = "record" /\ Armed(creq[c])]_vars
           \/ calls' = calls
<1>1. ASSUME NEW c \in Clients, NEW o \in Outcomes, Call(c, o)
      PROVE  cpc[c] = "call" /\ cpc'[c] = "record" /\ Armed(creq[c])
    BY <1>1 DEF Call, TypeOK, Gated
<1>2. ASSUME ~\E c \in Clients, o \in Outcomes : Call(c, o) PROVE calls' = calls
    BY <1>2 DEF Next, Ask, Guard, Record, Minute, Restart, vars
<1>3. QED
    BY <1>1, <1>2

\* No call of the adapter without every gate open: the deployment enabled and not
\* rehearsing, the request valid, meant and confirmed.
THEOREM CallsAreArmed == Spec => OnlyArmedCalls
<1>1. Init => TypeOK /\ Gated
    BY TypeInit DEF Init, Gated
<1>2. TypeOK /\ Gated /\ [Next]_vars => (TypeOK /\ Gated)'
    BY TypeNext, GatedNext
<1>3. TypeOK /\ Gated /\ [Next]_vars =>
        [calls' # calls =>
            \E c \in Clients : cpc[c] = "call" /\ cpc'[c] = "record" /\ Armed(creq[c])]_vars
    BY GatedStep
<1>4. QED
    BY <1>1, <1>2, <1>3, PTL DEF Spec, OnlyArmedCalls

-----------------------------------------------------------------------------
(* The promise about keys (OrderOnce), for a caller that sends one request at *)
(* a time, always the real thing, to a deployment that never restarts, when   *)
(* no answer of the broker gets lost.  Each assumption is needed.             *)

Serial ==
    /\ \A c, d \in Clients : c = d
    /\ \A q \in Requests : q.live /\ q.ack
    /\ \A e \in Envs : e.enabled /\ ~e.dry
    /\ \A o \in Outcomes : o.landed => o.status = "ok"
    /\ MaxRestarts = 0

Untouched(k) == \A i \in Intents : landed[k][i] = 0

\* A key that was used is known as used; a request beyond the lookup has a key
\* that was not, until its own call.
Remembered ==
    /\ env \in Envs
    /\ restarts = 0
    /\ \A k \in Keys, i \in Intents : landed[k][i] > 0 =>
          \/ rows[k] # NoRow /\ rows[k].intent = i /\ rows[k].status \in Through
          \/ \E c \in Clients : /\ cpc[c] = "record" /\ cstatus[c] \in Through
                                /\ creq[c].key = k /\ creq[c].intent = i
    /\ \A c \in Clients : cpc[c] # "idle" => creq[c] \in Requests /\ ~Conflict(creq[c])
    /\ \A c \in Clients : \/ cpc[c] \in {"guards", "call"}
                          \/ cpc[c] = "record" /\ cstatus[c] \notin Through
                          => Untouched(creq[c].key)

LEMMA RememberedInit == Init => Remembered
BY DEF Init, Remembered, Untouched

LEMMA AskFresh ==
    ASSUME Serial, TypeOK, Remembered, NEW c \in Clients, cpc[c] = "idle",
           NEW q \in Requests, ~Conflict(q), ~Replay(q)
    PROVE  Untouched(q.key)
<1> SUFFICES ASSUME NEW i \in Intents, landed[q.key][i] # 0 PROVE FALSE
    BY DEF Untouched
<1>1. q \in Request /\ landed[q.key][i] > 0
    BY DEF TypeOK, Request
<1>2. \A d \in Clients : cpc[d] = "idle"
    BY DEF Serial
<1>3. rows[q.key] # NoRow /\ rows[q.key].intent = i /\ rows[q.key].status \in Through
    BY <1>1, <1>2 DEF Remembered, Request
<1>4. Confirmed(q)
    BY DEF Serial, Remembered, Confirmed, DryRun
<1>5. QED
    BY <1>3, <1>4 DEF Replay, Known, Through, Retryable

LEMMA CallLands ==
    ASSUME Serial, TypeOK, Remembered, NEW c \in Clients, NEW o \in Outcomes, Call(c, o)
    PROVE  /\ creq[c] \in Request
           /\ UNCHANGED landed \/ Once!Land(creq[c].key, creq[c].intent)
<1>1. creq[c] \in Request /\ Untouched(creq[c].key)
    BY DEF Call, TypeOK, Remembered
<1>2. landed[creq[c].key][creq[c].intent] = 0
    BY <1>1 DEF Untouched, Request
<1>3. UNCHANGED landed \/ landed' = [landed EXCEPT ![creq[c].key][creq[c].intent] = 1]
    BY <1>2, <1>1 DEF Call, TypeOK, Request
<1>4. QED
    BY <1>1, <1>3 DEF Once!Land, Untouched

LEMMA RememberedNext ==
    Serial /\ TypeOK /\ Remembered /\ [Next]_vars => Remembered'
<1> SUFFICES ASSUME Serial, TypeOK, Remembered, [Next]_vars PROVE Remembered'
    OBVIOUS
<1>1. ASSUME NEW c \in Clients, NEW q \in Requests, Ask(c, q) PROVE Remembered'
    <2>1. cpc[c] = "idle" /\ UNCHANGED <<env, rows, landed, cstatus, restarts>>
        BY <1>1 DEF Ask
    <2>2. \A d \in Clients : d = c
        BY DEF Serial
    <2>3. CASE UNCHANGED <<cpc, creq>>
        BY <2>1, <2>3 DEF Remembered, Untouched, Conflict, Known
    <2>4. CASE ~UNCHANGED <<cpc, creq>>
        <3>1. ~Conflict(q) /\ ~Replay(q) /\ cpc'[c] = "guards" /\ creq'[c] = q
            BY <1>1, <2>4 DEF Ask, TypeOK
        <3>2. Untouched(q.key)
            BY <2>1, <3>1, AskFresh
        <3>3. QED
            BY <2>1, <2>2, <3>1, <3>2 DEF Remembered, Untouched, Conflict, Known
    <2>5. QED
        BY <2>3, <2>4
<1>2. ASSUME NEW c \in Clients, Guard(c) PROVE Remembered'
    <2>1. cpc[c] = "guards" /\ UNCHANGED <<env, rows, landed, creq, restarts>>
        BY <1>2 DEF Guard
    <2>2. \A d \in Clients : d = c
        BY DEF Serial
    <2>3. cpc'[c] = "call" \/ (cpc'[c] = "record" /\ cstatus'[c] \notin Through)
        BY <1>2, VerdictFacts DEF Guard, TypeOK, Through
    <2>4. QED
        BY <2>1, <2>2, <2>3 DEF Remembered, Untouched, Conflict, Known
<1>3. ASSUME NEW c \in Clients, NEW o \in Outcomes, Call(c, o) PROVE Remembered'
    <2>1. /\ creq[c] \in Request /\ creq[c] \in Requests
          /\ cpc[c] = "call" /\ UNCHANGED <<env, rows, creq, restarts>>
          /\ cpc'[c] = "record" /\ cstatus'[c] = Reported(creq[c], o)
        BY <1>3 DEF Call, TypeOK, Remembered
    <2>2. \A d \in Clients : d = c
        BY DEF Serial
    <2>3. o.landed => Reported(creq[c], o) \in Through
        BY DEF Serial, Reported, Through
    <2>4. Reported(creq[c], o) \in Through => o.landed
        BY <2>1, ReportedFacts
    <2>5. ~o.landed => UNCHANGED landed
        BY <1>3 DEF Call
    <2>6. Untouched(creq[c].key)
        BY <2>1 DEF Remembered
    <2>7. ASSUME NEW k \in Keys, NEW i \in Intents, landed'[k][i] > 0
          PROVE  \/ rows'[k] # NoRow /\ rows'[k].intent = i /\ rows'[k].status \in Through
                 \/ /\ cpc'[c] = "record" /\ cstatus'[c] \in Through
                    /\ creq'[c].key = k /\ creq'[c].intent = i
        <3>1. CASE landed[k][i] > 0
            BY <3>1, <2>1, <2>2 DEF Remembered
        <3>2. CASE ~(landed[k][i] > 0)
            <4>1. landed'[k][i] # landed[k][i]
                BY <2>7, <3>2
            <4>2. k = creq[c].key /\ i = creq[c].intent /\ o.landed
                BY <1>3, <4>1, <2>1 DEF Call, TypeOK, Request
            <4>3. QED
                BY <4>2, <2>1, <2>3
        <3>3. QED
            BY <3>1, <3>2
    <2>8. cstatus'[c] \notin Through => Untouched(creq[c].key)'
        BY <2>1, <2>3, <2>5, <2>6 DEF Untouched
    <2>9. QED
        BY <2>1, <2>2, <2>7, <2>8 DEF Remembered, Conflict, Known
<1>4. ASSUME NEW c \in Clients, Record(c) PROVE Remembered'
    <2>1. /\ creq[c] \in Request /\ cpc[c] = "record" /\ ~Conflict(creq[c])
          /\ UNCHANGED <<env, landed, restarts>> /\ cpc'[c] = "idle"
          /\ rows' = [rows EXCEPT ![creq[c].key] =
                         [intent |-> creq[c].intent, status |-> cstatus[c]]]
        BY <1>4 DEF Record, TypeOK, Remembered
    <2>2. \A d \in Clients : d = c
        BY DEF Serial
    <2>3. ASSUME NEW k \in Keys, NEW i \in Intents, landed[k][i] > 0
          PROVE  rows'[k] # NoRow /\ rows'[k].intent = i /\ rows'[k].status \in Through
        <3>1. CASE k = creq[c].key
            <4>1. cstatus[c] \in Through
                BY <2>1, <2>3, <3>1 DEF Remembered, Untouched
            <4>2. creq[c].intent = i
                <5>1. CASE rows[k] # NoRow /\ rows[k].intent = i
                    BY <2>1, <3>1, <5>1 DEF Conflict, Known
                <5>2. CASE \E d \in Clients : creq[d].key = k /\ creq[d].intent = i
                    BY <2>2, <5>2
                <5>3. QED
                    BY <2>3, <5>1, <5>2 DEF Remembered
            <4>3. rows'[k] = [intent |-> creq[c].intent, status |-> cstatus[c]]
                BY <2>1, <3>1 DEF TypeOK
            <4>4. rows'[k] # NoRow
                BY <4>3, <2>1, NullAssumption DEF Request, TypeOK, Row
            <4>5. QED
                BY <4>1, <4>2, <4>3, <4>4
        <3>2. CASE k # creq[c].key
            BY <2>1, <2>2, <2>3, <3>2 DEF Remembered, TypeOK
        <3>3. QED
            BY <3>1, <3>2
    <2>4. QED
        BY <2>1, <2>2, <2>3 DEF Remembered
<1>5. CASE Minute
    BY <1>5 DEF Minute, Remembered, Untouched, Conflict, Known
<1>6. ASSUME NEW e \in Envs, Restart(e) PROVE FALSE
    BY <1>6 DEF Restart, Serial, Remembered
<1>7. CASE UNCHANGED vars
    BY <1>7 DEF vars, Remembered, Untouched, Conflict, Known
<1>8. QED
    BY <1>1, <1>2, <1>3, <1>4, <1>5, <1>6, <1>7 DEF Next

LEMMA OnceStep ==
    ASSUME Serial, TypeOK, Remembered, [Next]_vars
    PROVE  [Once!Next]_landed
<1>1. ASSUME NEW c \in Clients, NEW o \in Outcomes, Call(c, o) PROVE [Once!Next]_landed
    BY <1>1, CallLands DEF Once!Next, Request
<1>2. ASSUME ~\E c \in Clients, o \in Outcomes : Call(c, o) PROVE UNCHANGED landed
    BY <1>2 DEF Next, Ask, Guard, Record, Minute, Restart, vars
<1>3. QED
    BY <1>1, <1>2

\* Used by one serial caller with acknowledged live requests, when every order
\* that reaches the broker is answered with ok and nothing restarts, the service
\* keeps the promise of the contract: it implements OrderOnce.  Two callers, a rehearsal with the same key, a lost
\* answer or a restart in between break it.
THEOREM SerialKeysAreOnce ==
    ASSUME Serial
    PROVE  Spec => AtMostOnce
<1>1. Init => TypeOK /\ Remembered /\ Once!Init
    BY TypeInit, RememberedInit DEF Init, Once!Init
<1>2. TypeOK /\ Remembered /\ [Next]_vars => (TypeOK /\ Remembered)' /\ [Once!Next]_landed
    BY TypeNext, RememberedNext, OnceStep
<1>3. QED
    BY <1>1, <1>2, PTL DEF Spec, AtMostOnce, Once!Spec
=============================================================================
