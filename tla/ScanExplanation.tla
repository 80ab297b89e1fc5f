---------------------------- MODULE ScanExplanation ----------------------------
(***************************************************************************)
(* The explanation that goes with a candidate of a scan (_confidence,      *)
(* _risk_level, _build_explanation and _build_task_explanation of          *)
(* application/scan_api_service.py): its score, confidence and risk level  *)
(* follow from the candidate's own scores and from the provider that gave  *)
(* the market data.  Confidence is counted in hundredths; -1 stands for a  *)
(* value that is missing.                                                  *)
(***************************************************************************)
EXTENDS Integers, FiniteSets, FiniteSetsExt

CONSTANTS Totals, Risks  \* total and risk scores of candidates

VARIABLES item,   \* the candidate: [total, risk, others], others its further indicators
          usage   \* the provider's note: [quality, fallback]

vars == <<item, usage>>

Items == [total : Totals \cup {-1}, risk : Risks \cup {-1}, others : 0..3]
Usages == [quality : {"primary", "fallback", "mock"}, fallback : BOOLEAN]

Init == item \in Items /\ usage \in Usages

\* _confidence: five fields count.
Present(i) == i.others + Cardinality({x \in {"total", "risk"} : i[x] # -1})
Confidence(i, u) ==
    LET base == 35 + Min({45, 9 * Present(i)})
    IN Max({5, Min({100, base + (IF u.quality # "mock" THEN 20 ELSE 5) - (IF u.fallback THEN 10 ELSE 0)})})

\* _risk_level
RiskLevel(i, u) == IF i.risk >= 75 \/ u.quality = "mock" THEN 2 ELSE IF i.risk >= 50 \/ u.fallback THEN 1 ELSE 0

\* _build_explanation: the candidate's own score, and what is taken off.
SlipOwn(i) == IF i.total \in 70..95 THEN i.total ELSE 70
Own(i) == Max({70, Min({95, IF i.total = -1 THEN 70 ELSE i.total})})
Score(i, u) == Max({Own(i) - (IF i.risk >= 70 THEN 10 ELSE 0) - (IF u.fallback THEN 15 ELSE 0) - (IF u.quality = "mock" THEN 20 ELSE 0), 0})

\* _build_task_explanation: of a task that waits, or of its matches.
TaskScore(queued, matched) == IF queued THEN 50 ELSE IF matched > 0 THEN 70 ELSE 0
TaskConfidence(queued, matched) == IF queued THEN 30 ELSE Min({90, 45 + 5 * matched})

\* The same candidate seen again, with another provider behind it or other scores.
Next == item' \in Items /\ usage' \in Usages /\ (item' = item \/ usage' = usage)
Spec == Init /\ [][Next]_vars

-------------------------------------------------------------------------------
(* Worse market data never make a candidate look better: with the same item, a *)
(* fallback or mock data give no higher score or confidence and no lower risk  *)
(* level, and mock data are always of high risk and strictly behind.           *)
Worse(u, v) == (u.fallback \/ ~v.fallback) /\ (u.quality = "mock" \/ v.quality # "mock")
DegradedNotBetter ==
    [][usage' # usage /\ item' = item /\ Worse(usage', usage) =>
          /\ Score(item, usage') <= Score(item, usage) /\ Confidence(item, usage') <= Confidence(item, usage)
          /\ RiskLevel(item, usage') >= RiskLevel(item, usage)
          /\ usage'.quality = "mock" /\ usage.quality # "mock" => Score(item, usage') < Score(item, usage)]_vars

(* With the same provider, a candidate with a higher total and no higher risk  *)
(* is never ranked behind by its explanation.                                  *)
BetterNotBehind ==
    [][item' # item /\ usage' = usage /\ item'.total >= item.total /\ item'.risk <= item.risk
          => Score(item', usage) >= Score(item, usage) /\ RiskLevel(item', usage) <= RiskLevel(item, usage)]_vars

(* A task that waits never claims the confidence of one that has its result,   *)
(* even an empty one, and more matches never lower what a task claims.         *)
TaskClaims == \A n \in 0..12 : /\ TaskConfidence(TRUE, 0) < TaskConfidence(FALSE, n)
                               /\ n > 0 => TaskConfidence(FALSE, n) >= TaskConfidence(FALSE, n - 1) /\ TaskScore(FALSE, n) >= TaskScore(FALSE, n - 1)
===============================================================================
