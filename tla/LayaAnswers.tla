---------------------------- MODULE LayaAnswers ----------------------------
(***************************************************************************)
(* decision_engine/laya_adapter: what is asked of Laya, how the mock       *)
(* answers, and how an answer is read (normalize.py): malformed answers    *)
(* are no advice, and the confidence is the mass of the chosen label.      *)
(* Probabilities are percentages; a resource label keeps its name.         *)
(***************************************************************************)
EXTENDS Guardrail, FiniteSetsExt

Questions == {"priority", "needs_human_review", "recommended_resource_type"}
NoChoice == "no choice"

\* What laya_mlx may hand back: the questions answered, a label (of the
\* question or not) with a distribution over labels, and a noul, in percent.
PriorityName == <<"LOW", "MEDIUM", "HIGH", "CRITICAL">>   \* 1 + the priority
PriorityLabels == {PriorityName[k] : k \in DOMAIN PriorityName}

Mass(dist, labels) == MapThenSumSet(LAMBDA l : dist[l], labels)

\* The choice, or the label with the largest mass where none is given.
Chosen(q) == IF q.choice # NoChoice THEN q.choice
             ELSE CHOOSE l \in DOMAIN q.dist : \A k \in DOMAIN q.dist : q.dist[k] <= q.dist[l]

\* The derived answer_confidence: upstream's own confidence is not used.
AnswerConfidence(q) == IF Chosen(q) \in DOMAIN q.dist THEN q.dist[Chosen(q)] ELSE 0

\* to_raw: the payload has every question, something to choose from, and a
\* noul between 0 and 1.
Readable(r) ==
    /\ r.given = Questions
    /\ \A q \in {r.priority, r.resource} : q.choice # NoChoice \/ DOMAIN q.dist # {}
    /\ r.noul \in Percent

\* _validate_distribution.
ProperDistribution(dist, labels) ==
    /\ DOMAIN dist \subseteq labels
    /\ \A l \in DOMAIN dist : dist[l] \in Percent
    /\ Mass(dist, DOMAIN dist) \in 99..101

\* normalize: the resource may come without a distribution, the priority not.
Valid(r) ==
    /\ Readable(r)
    /\ Chosen(r.priority) \in PriorityLabels
    /\ ProperDistribution(r.priority.dist, PriorityLabels)
    /\ Chosen(r.resource) \in ResourceTypes
    /\ \/ DOMAIN r.resource.dist = {}
       \/ ProperDistribution(r.resource.dist, ResourceTypes)

PriorityNamed(label) == CHOOSE p \in Priorities : PriorityName[p + 1] = label

\* NormalizedLayaResponse.failed: nothing in it but the status.
NoAdvice == [ok |-> FALSE, priority |-> LOW, review |-> FALSE, conf |-> 0,
             resource |-> NoResource]

\* What the policy is told (suggested_priority and its neighbours).
AdviceOf(r) ==
    IF Valid(r) THEN [ok |-> TRUE, priority |-> PriorityNamed(Chosen(r.priority)),
                      review |-> r.noul >= 50, conf |-> AnswerConfidence(r.priority),
                      resource |-> Chosen(r.resource)]
    ELSE NoAdvice

-----------------------------------------------------------------------------
(* LayaState, the part the mock reads, and the mock's answer to it.        *)

StateOf(type, a, ambulances) ==
    [type |-> type, sev |-> IF a.sev.ok THEN a.sev.pred ELSE LOW,
     delta |-> IF a.traffic.ok THEN a.traffic.delta ELSE 0,
     quality |-> a.anomaly.score, ambulances |-> ambulances]

MockPriority(s) == IF s.sev = CRITICAL \/ (s.sev = HIGH /\ s.delta >= 40) THEN CRITICAL
                   ELSE s.sev

MockReview(s) == s.quality >= 50 \/ s.ambulances = 0

MockAnswers(s) ==
    LET label == PriorityName[MockPriority(s) + 1]
        unit  == FallbackResource(s.type)[1]
    IN  [given |-> Questions,
         priority |-> [choice |-> label,
                       dist |-> [l \in PriorityLabels |-> IF l = label THEN 55 ELSE 15]],
         resource |-> [choice |-> unit,
                       dist |-> [t \in ResourceTypes |-> IF t = unit THEN 80 ELSE 5]],
         noul |-> IF MockReview(s) THEN 73 ELSE 24]

=============================================================================
