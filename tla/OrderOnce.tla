------------------------------ MODULE OrderOnce ------------------------------
(***************************************************************************)
(* What the live broker contract promises a caller that uses idempotency   *)
(* keys: a key stands for one intent, and that intent reaches the broker   *)
(* at most once, however often the request is sent.                        *)
(***************************************************************************)
EXTENDS Naturals

CONSTANTS Keys, Intents

VARIABLE landed  \* key -> intent -> how often the broker accepted it

Init == landed = [k \in Keys |-> [i \in Intents |-> 0]]

Land(k, i) ==
    /\ \A j \in Intents : landed[k][j] = 0
    /\ landed' = [landed EXCEPT ![k][i] = 1]

Next == \E k \in Keys, i \in Intents : Land(k, i)

Spec == Init /\ [][Next]_landed
=============================================================================
