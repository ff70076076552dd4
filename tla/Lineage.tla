------------------------------ MODULE Lineage ------------------------------
(***************************************************************************)
(* decision_engine/lineage.py: the explanation a decision carries.  The    *)
(* policy collects the rules it met on its way (Matched); the lineage      *)
(* names one of them, by a fixed precedence, as the decisive clause, and   *)
(* lists the evidence as terms that speak for or against the case.         *)
(***************************************************************************)
EXTENDS GuardrailSpec

\* The rules of the policy's holds, with the condition of each.
HoldRules(a) ==
    {r \in {"LAYA-REVIEW", "LAYA-LOW-AC", "DATA-QUALITY", "LOW-CONFIDENCE"} :
        \/ r = "LAYA-REVIEW"    /\ a.laya.ok /\ a.laya.review
        \/ r = "LAYA-LOW-AC"    /\ a.laya.ok /\ a.laya.conf < AnswerGate
        \/ r = "DATA-QUALITY"   /\ DataQualityAnomaly(a)
        \/ r = "LOW-CONFIDENCE" /\ OverallBelowGate(a)}

\* What Laya's answer adds, whether or not the case is held.
AdvisoryRules(a) ==
    IF ~a.laya.ok THEN {"LAYA-FALLBACK"}
    ELSE {r \in {"LAYA-CRITICAL-BLOCKED"} :
             a.laya.priority = CRITICAL /\ SignalCapped(a) # CRITICAL}

\* matched_rules, without the rules that are in no precedence list.
Matched(c, free_) ==
    IF c.hard THEN {"INPUT-REJECT"}
    ELSE IF ModelFailed(c.a) THEN {"MODEL-FAILURE"}
    ELSE AdvisoryRules(c.a) \cup
         IF HoldRules(c.a) # {} THEN HoldRules(c.a)
         ELSE (IF c.a.laya.ok THEN {"AUTO-APPROVE"} ELSE {"LAYA-DEGRADED"})
              \cup {r \in {"CONTENTION"} : Contention(c, free_)}

\* Broken: the advisor's rules come before the contention.
ClausesAdvisorFirst ==
    <<"INPUT-REJECT", "MODEL-FAILURE", "DATA-QUALITY", "LOW-CONFIDENCE",
      "LAYA-CRITICAL-BLOCKED", "LAYA-FALLBACK", "LAYA-DEGRADED", "CONTENTION",
      "LAYA-LOW-AC", "LAYA-REVIEW", "AUTO-APPROVE">>

Clauses == <<"INPUT-REJECT", "MODEL-FAILURE", "DATA-QUALITY", "LOW-CONFIDENCE",
             "CONTENTION", "LAYA-CRITICAL-BLOCKED", "LAYA-FALLBACK",
             "LAYA-DEGRADED", "LAYA-LOW-AC", "LAYA-REVIEW", "AUTO-APPROVE">>

PickClause(rules) == Clauses[Least({k \in DOMAIN Clauses : Clauses[k] \in rules})]

(***************************************************************************)
(* The terms: which way each piece of evidence points.                     *)
(***************************************************************************)
Sign(n) == IF n > 0 THEN "+" ELSE IF n < 0 THEN "-" ELSE "~"

\* Terms of a decision with its record r: label -> direction.
Terms(c, r) ==
    LET a    == c.a
        held == r.source = "HUMAN_REQUIRED"   \* no allocation was tried
    IN  [severity  |-> Sign(Bit(a.sev.ok)),
         traffic   |-> IF a.traffic.ok THEN Sign(a.traffic.delta) ELSE "~",
         quality   |-> Sign(-a.anomaly.score),
         advisory  |-> IF ~a.laya.ok THEN "none"
                       ELSE IF a.laya.priority = r.priority THEN "+" ELSE "-",
         scarcity  |-> IF held THEN "none"
                       ELSE Sign(-Bit(r.state = "CONTENTION_ESCALATION" \/ r.units = <<>>))]

-----------------------------------------------------------------------------
(* The clause shown to an operator agrees with what was decided: a case no *)
(* human looks at never shows a clause that holds cases, a held one never  *)
(* shows an approval, and a rejection, a lost model and a lack of units    *)
(* are always shown as such.                                               *)
ClauseFitsTheRoute ==
    Answered =>
        LET clause == PickClause(Matched(ctx, free))
        IN  /\ Answer.state = "REJECTED_INPUT" <=> clause = "INPUT-REJECT"
            /\ Answer.state = "CONTENTION_ESCALATION" <=> clause = "CONTENTION"
            /\ clause = "MODEL-FAILURE" =>
                  Answer.state = "MODEL_DEGRADED" /\ Answer.units = <<>>
            /\ clause \in HoldRules(ctx.a) => Answer.source = "HUMAN_REQUIRED"
            /\ clause \in {"AUTO-APPROVE", "LAYA-DEGRADED"} =>
                  Answer.source # "HUMAN_REQUIRED"

(* lineage.py:4 calls it "the decisive policy clause": a case that is held *)
(* is explained by a rule that holds it.                                   *)
HeldCaseNamesItsHold ==
    (Answered /\ Answer.state = "HOLD_FOR_HUMAN") =>
        PickClause(Matched(ctx, free)) \in HoldRules(ctx.a)

(* The scarcity term speaks against a case only when units were short: the *)
(* evidence of lineage.py:5-6.                                             *)
ScarcityIsReal ==
    (Answered /\ Terms(ctx, Answer).scarcity = "-") => Contention(ctx, free)

=============================================================================
