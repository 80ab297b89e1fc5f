---------------------------- MODULE MCLiveBroker ----------------------------
(* Instances of LiveBroker for TLC *)
EXTENDS LiveBroker

CONSTANTS k1, k2, buy, sell, undo, junk

MCKindOf == [i \in Intents |-> IF i = undo THEN "cancel" ELSE "submit"]

Ready == [enabled |-> TRUE, dry |-> FALSE, submitOK |-> TRUE, cancelOK |-> TRUE]
LiveEnvs == {Ready}
\* Enabled and rehearsing, switched off, and with a missing or a broken URL.
AllEnvs == {Ready, [Ready EXCEPT !.dry = TRUE], [Ready EXCEPT !.enabled = FALSE],
            [Ready EXCEPT !.submitOK = FALSE], [Ready EXCEPT !.cancelOK = FALSE]}

AllRequests == Request
\* Requests that ask for the real thing.
LiveRequests == {q \in Request : q.live /\ q.ack}

\* A 2xx answer means the broker took the request, a refusal that it did not; an
\* exception leaves it open.
AllOutcomes == {o \in Outcome : CASE o.status = "ok" -> o.landed
                                  [] o.status = "broker_error" -> TRUE
                                  [] OTHER -> ~o.landed}
Accepted == {[landed |-> TRUE, status |-> "ok"]}
AcceptedOrRefused == Accepted \cup {[landed |-> FALSE, status |-> "broker_rejected"]}
=============================================================================
