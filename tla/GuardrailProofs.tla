-------------------------- MODULE GuardrailProofs ---------------------------
(***************************************************************************)
(* The promises of the policy, first for one call of it, then for          *)
(* decisions whose evidence comes through the pool of the models.          *)
(*                                                                         *)
(* For one call they follow from one fact: once answered, the answer is    *)
(* Decide(ctx, free) for a well-formed context. What remains is the        *)
(* algebra of GuardrailTheorems, a case analysis of lost evidence, and one *)
(* of the clauses.                                                         *)
(*                                                                         *)
(* The evidence that comes through the pool grows call by call:            *)
(* EvidenceInv says what of it is there, and that a decision was made of   *)
(* just that. PoolInv counts the jobs of a client: one while it waits for  *)
(* a model without an answer, else none, wherever a worker or a deadline   *)
(* has moved them.                                                         *)
(***************************************************************************)
EXTENDS Lineage, Models, GuardrailTheorems, FiniteSetTheorems, SequenceTheorems

-----------------------------------------------------------------------------
(* Lost evidence *)

\* b says the same as a of who must look at the case, and no more of its gravity.
Weaker(b, a) == /\ b.sev.pred = a.sev.pred
                /\ SignalCount(b) <= SignalCount(a)
                /\ DataQualityAnomaly(b) <=> DataQualityAnomaly(a)
                /\ ModelFailed(b) <=> ModelFailed(a)
                /\ OverallBelowGate(b) <=> OverallBelowGate(a)
                /\ b.trust <= a.trust

(* A reading replaced by its worst blinds the policy, or fails the gate of *)
(* overall confidence, or only weakens the case.                           *)
LEMMA DegradedIsSeen ==
    ASSUME NEW a \in Assessment, NEW b \in Degradations(a)
    PROVE  /\ b \in Assessment /\ b.laya = a.laya
           /\ ModelFailed(b) \/ OverallBelowGate(b) \/ Weaker(b, a)
<1> USE DEF Assessment, Percent
<1>1. CASE b = [a EXCEPT !.sev.ok = FALSE]
  BY <1>1 DEF ModelFailed
<1>2. CASE b = [a EXCEPT !.sev.conf = 0]
  BY <1>2 DEF OverallBelowGate, OverallGate
<1>3. CASE b = [a EXCEPT !.traffic.ok = FALSE]
  BY <1>3 DEF ModelFailed
<1>4. CASE b = [a EXCEPT !.traffic.conf = 0]
  BY <1>4 DEF OverallBelowGate, OverallGate
<1>5. CASE b = [a EXCEPT !.traffic.delta = 0]
  <2>1. /\ b \in Assessment /\ b.laya = a.laya /\ b.sev = a.sev
        /\ b.anomaly = a.anomaly /\ b.trust = a.trust
        /\ b.traffic.delta = 0
        /\ b.traffic.ok = a.traffic.ok /\ b.traffic.conf = a.traffic.conf
    BY <1>5
  <2>2. SignalCount(b) <= SignalCount(a)
    BY <2>1 DEF SignalCount, Bit, TrafficCritical
  <2> QED
    BY <2>1, <2>2 DEF Weaker, DataQualityAnomaly, ModelFailed, OverallBelowGate
<1>6. CASE b = [a EXCEPT !.anomaly.failed = TRUE]
  BY <1>6 DEF ModelFailed
<1>7. CASE b = [a EXCEPT !.anomaly.score = 100]
  BY <1>7 DEF OverallBelowGate, OverallGate
<1>8. CASE b = [a EXCEPT !.anomaly.situational = FALSE]
  <2>1. /\ b \in Assessment /\ b.laya = a.laya /\ b.sev = a.sev
        /\ b.traffic = a.traffic /\ b.trust = a.trust
        /\ b.anomaly.situational = FALSE
        /\ b.anomaly.failed = a.anomaly.failed /\ b.anomaly.score = a.anomaly.score
    <3>1. /\ b.laya = a.laya /\ b.sev = a.sev /\ b.traffic = a.traffic
          /\ b.trust = a.trust
          /\ b.anomaly = [a.anomaly EXCEPT !.situational = FALSE]
      BY <1>8
    <3>2. /\ b.anomaly.situational = FALSE
          /\ b.anomaly.failed = a.anomaly.failed /\ b.anomaly.score = a.anomaly.score
      BY <3>1
    <3>3. b \in Assessment
      BY <1>8
    <3> QED
      BY <3>1, <3>2, <3>3
  <2>2. SignalCount(b) <= SignalCount(a)
    BY <2>1 DEF SignalCount, Bit
  <2> QED
    BY <2>1, <2>2 DEF Weaker, DataQualityAnomaly, ModelFailed, OverallBelowGate
<1>9. CASE b = [a EXCEPT !.trust = 0]
  <2>1. /\ b \in Assessment /\ b.laya = a.laya /\ b.sev = a.sev
        /\ b.traffic = a.traffic /\ b.anomaly = a.anomaly /\ b.trust <= a.trust
    BY <1>9
  <2>2. SignalCount(b) <= SignalCount(a)
    BY <2>1 DEF SignalCount, Bit
  <2> QED
    BY <2>1, <2>2 DEF Weaker, DataQualityAnomaly, ModelFailed, OverallBelowGate
<1> QED
  BY <1>1, <1>2, <1>3, <1>4, <1>5, <1>6, <1>7, <1>8, <1>9 DEF Degradations

(* Evidence lost never sends a unit the full evidence would not have sent. *)
LEMMA LostEvidenceSendsNothingNew ==
    ASSUME NEW c \in DecisionContext, NEW S, S \subseteq Units,
           NEW b \in Degradations(c.a),
           Decide([c EXCEPT !.a = b], S).units # <<>>
    PROVE  Decide([c EXCEPT !.a = b], S).units = Decide(c, S).units
<1> DEFINE d == [c EXCEPT !.a = b]
<1>1. /\ c.a \in Assessment
      /\ b \in Assessment /\ b.laya = c.a.laya
      /\ ModelFailed(b) \/ OverallBelowGate(b) \/ Weaker(b, c.a)
  <2>1. c.a \in Assessment
    BY DEF DecisionContext
  <2> QED
    BY <2>1, DegradedIsSeen
<1>2. /\ d \in DecisionContext /\ d.a = b
      /\ d.hard = c.hard /\ d.type = c.type /\ d.zone = c.zone
      /\ d.position = c.position
  BY <1>1 DEF DecisionContext
<1> HIDE DEF d
<1>3. ~d.hard /\ ~ModelFailed(b) /\ ~MustHold(b) /\ Decide(d, S).units = Allocated(d, S)
  BY <1>2, DecidedUnits DEF d
<1>4. Weaker(b, c.a)
  BY <1>1, <1>3 DEF MustHold
<1>5. ~c.hard /\ ~ModelFailed(c.a) /\ ~MustHold(c.a)
  BY <1>1, <1>2, <1>3, <1>4 DEF MustHold, Weaker
<1>6. Wanted(d) = Wanted(c) /\ ServedIndex(d, S) = ServedIndex(c, S)
  BY <1>1, <1>2 DEF ServedIndex, Wanted
<1>7. FinalPriority(d) # LOW /\ ServedIndex(d, S) # 0
  BY <1>2, <1>3, AllocatedIsPicked DEF d
<1>8. FinalPriority(c) # LOW
  BY <1>2, <1>4, <1>7, WeakerIsNotHigher DEF Weaker
<1>9. Allocated(d, S) = Allocated(c, S)
  BY <1>2, <1>6, <1>7, <1>8 DEF Allocated, Pick
<1> QED
  BY <1>3, <1>5, <1>9, DecidedUnits DEF d

-----------------------------------------------------------------------------
(* The specification *)

\* What every reachable state says of the question and its answer.
Faithful == /\ ctx \in Contexts /\ free \subseteq Units
            /\ decided \in {<<>>, <<Decide(ctx, free)>>}

(* An answer, once there is one, is Decide of the question. *)
THEOREM AnswersAreFaithful == PolicySpec => []Faithful
<1>1. PolicyInit => Faithful
  BY DEF PolicyInit, Faithful
<1>2. Faithful /\ [DecideOnce]_policyVars => Faithful'
  BY DEF Faithful, DecideOnce, policyVars
<1> QED
  BY <1>1, <1>2, PTL DEF PolicySpec

(* What Faithful gives the lemmas: a well-formed context and its answer.   *)
LEMMA AnswerIsDecided ==
    ASSUME Faithful
    PROVE  /\ ctx \in DecisionContext /\ free \subseteq Units
           /\ Answered => Answer = Decide(ctx, free)
BY ContextAssumption DEF Faithful, Answered, Answer

(* Invariants 9 and 10 for every fleet and context: nothing the advisor    *)
(* can answer moves the priority decide() gives (policy.py:157-237).       *)
THEOREM AdviceNeverMovesPriorityHolds == PolicySpec => []AdviceNeverMovesPriority
<1>1. Faithful => AdviceNeverMovesPriority
  <2> SUFFICES ASSUME Faithful, Answered, NEW l \in Advice
               PROVE  Decide([ctx EXCEPT !.a.laya = l], free).priority
                        = Answer.priority
    BY DEF AdviceNeverMovesPriority
  <2>1. ctx \in DecisionContext /\ [ctx EXCEPT !.a.laya = l] \in DecisionContext
    BY ContextAssumption DEF Faithful
  <2>2. Decide([ctx EXCEPT !.a.laya = l], free).priority = Decide(ctx, free).priority
    BY <2>1, AdviceMovesNothing
  <2> QED
    BY <2>2, AnswerIsDecided
<1> QED
  BY <1>1, AnswersAreFaithful, PTL

(* Invariant 5 as the code keeps it (policy.py:140-203), for every context. *)
THEOREM CriticalIsSupportedOrRaisedHolds == PolicySpec => []CriticalIsSupportedOrRaised
<1>1. Faithful => CriticalIsSupportedOrRaised
  <2> SUFFICES ASSUME Faithful, Answered, Answer.priority = CRITICAL
               PROVE  \/ SignalCount(ctx.a) >= 2 /\ ~DataQualityAnomaly(ctx.a)
                      \/ /\ ctx.position = "EQUITY" /\ ctx.zone \in UnderservedZones
                         /\ QualityCapped(ctx.a) = HIGH
    BY DEF CriticalIsSupportedOrRaised
  <2>1. ctx \in DecisionContext /\ Decide(ctx, free).priority = CRITICAL
    BY AnswerIsDecided
  <2> QED
    BY <2>1, CriticalHasGrounds
<1> QED
  BY <1>1, AnswersAreFaithful, PTL

(* A governance position never decides who decides (policy.py:191-237).    *)
THEOREM PositionNeverLiftsAHoldHolds == PolicySpec => []PositionNeverLiftsAHold
<1>1. Faithful => PositionNeverLiftsAHold
  <2> SUFFICES ASSUME Faithful, Answered, NEW p \in Positions
               PROVE  LET other == Decide([ctx EXCEPT !.position = p], free)
                      IN  /\ other.source = "HUMAN_REQUIRED"
                                <=> Answer.source = "HUMAN_REQUIRED"
                          /\ ctx.position = "RESPONSE_TIME" =>
                               other.priority - Answer.priority
                                  \in {0, Bit(p = "EQUITY")}
    BY DEF PositionNeverLiftsAHold
  <2> QED
    BY AnswerIsDecided, PositionIsApart
<1> QED
  BY <1>1, AnswersAreFaithful, PTL

(* Contention is declared exactly for want of a unit (allocate.py:51-93,   *)
(* policy.py:253-281).                                                     *)
THEOREM ContentionIsHonestHolds == PolicySpec => []ContentionIsHonest
<1>1. Faithful => ContentionIsHonest
  <2> SUFFICES ASSUME Faithful, Answered, Answer.source # "HUMAN_REQUIRED"
               PROVE  LET served == {u \in free : \E k \in DOMAIN Answer.recommended :
                                        UnitType[u] = Answer.recommended[k]}
                      IN  /\ Answer.state = "CONTENTION_ESCALATION" <=>
                                Answer.priority # LOW /\ served = {}
                          /\ Answer.units # <<>> <=> Answer.priority # LOW /\ served # {}
                          /\ Answer.units # <<>> => Answer.units[1] \in served
    BY DEF ContentionIsHonest
  <2> DEFINE served == {u \in free : \E k \in DOMAIN Wanted(ctx) :
                                        UnitType[u] = Wanted(ctx)[k]}
  <2>1. ctx \in DecisionContext /\ free \subseteq Units /\ Answer = Decide(ctx, free)
    BY AnswerIsDecided
  <2>2. Answer = Automated(ctx, free)
    BY <2>1, DecidedByHuman DEF Decide
  <2>3. /\ Answer.state = AutomatedState(ctx, free)
        /\ Answer.priority = FinalPriority(ctx)
        /\ Answer.recommended = Wanted(ctx)
        /\ Answer.units = Allocated(ctx, free)
    BY <2>2 DEF Automated
  <2>4. AutomatedState(ctx, free) = "CONTENTION_ESCALATION" <=> Contention(ctx, free)
    BY DEF AutomatedState
  <2>5. ServedIndex(ctx, free) = 0 <=> served = {}
    BY <2>1, ServedIsServable DEF OfType
  <2>6. Allocated(ctx, free) # <<>> => Allocated(ctx, free)[1] \in served
    BY <2>1, AllocatedIsPicked
  <2> HIDE DEF served
  <2>7. /\ Answer.state = "CONTENTION_ESCALATION" <=>
               Answer.priority # LOW /\ served = {}
        /\ Answer.units # <<>> <=> Answer.priority # LOW /\ served # {}
        /\ Answer.units # <<>> => Answer.units[1] \in served
    BY <2>1, <2>3, <2>4, <2>5, <2>6, AllocatedIsPicked DEF Contention
  <2> QED
    BY <2>3, <2>7 DEF served
<1> QED
  BY <1>1, AnswersAreFaithful, PTL

(* Missing or worse evidence never dispatches (policy.py:124-249).         *)
THEOREM LostEvidenceNeverDispatchesHolds == PolicySpec => []LostEvidenceNeverDispatches
<1>1. Faithful => LostEvidenceNeverDispatches
  <2> SUFFICES ASSUME Faithful, Answered, NEW b \in Degradations(ctx.a)
               PROVE  LET less == Decide([ctx EXCEPT !.a = b], free)
                      IN  less.units # <<>> => less.units = Answer.units
    BY DEF LostEvidenceNeverDispatches
  <2> QED
    BY AnswerIsDecided, LostEvidenceSendsNothingNew
<1> QED
  BY <1>1, AnswersAreFaithful, PTL

(* The vehicle sent is the one the position asks for (allocate.py:51-93).  *)
THEOREM PickServesThePositionHolds == PolicySpec => []PickServesThePosition
<1>1. Faithful => PickServesThePosition
  <2> SUFFICES ASSUME Faithful, Answered, Answer.units # <<>>
               PROVE  LET u     == Answer.units[1]
                          rival == {v \in free : UnitType[v] = UnitType[u]}
                      IN  IF ctx.position = "ECO"
                          THEN \A v \in rival : EcoScore[v] <= EcoScore[u]
                          ELSE (\E v \in rival : UnitZone[v] = ctx.zone)
                                  => UnitZone[u] = ctx.zone
    BY DEF PickServesThePosition
  <2> DEFINE type == Wanted(ctx)[ServedIndex(ctx, free)]
  <2> DEFINE u    == Pick(ctx, OfType(free, type))
  <2>1. ctx \in DecisionContext /\ free \subseteq Units /\ Answer = Decide(ctx, free)
    BY AnswerIsDecided
  <2>2. Answer.units = Allocated(ctx, free)
    BY <2>1, DecidedUnits
  <2>3. Answer.units = <<u>> /\ u \in free /\ UnitType[u] = type
    BY <2>1, <2>2, AllocatedIsPicked
  <2>4. OfType(free, type) = {v \in free : UnitType[v] = UnitType[u]}
    BY <2>3 DEF OfType
  <2>5. OfType(free, type) \subseteq Units /\ OfType(free, type) # {}
    BY <2>1, <2>3, <2>4
  <2>6. /\ ctx.position = "ECO" =>
              \A v \in OfType(free, type) : EcoScore[v] <= EcoScore[u]
        /\ ctx.position # "ECO" =>
              ((\E v \in OfType(free, type) : UnitZone[v] = ctx.zone)
                  => UnitZone[u] = ctx.zone)
    BY <2>5, PickIsACandidate
  <2>7. Answer.units[1] = u
    BY <2>3
  <2> QED
    BY <2>4, <2>6, <2>7
<1> QED
  BY <1>1, AnswersAreFaithful, PTL

(* The record is one the rest of the system can store (policy.py:318-406). *)
THEOREM GuardrailTypeCorrect == PolicySpec => []GuardrailTypeOK
<1>1. Faithful => GuardrailTypeOK
  <2> SUFFICES ASSUME Faithful, Answered
               PROVE  /\ Answer.state \in DecisionStates
                      /\ Answer.priority \in Priorities
                      /\ Answer.source \in DecisionSources
                      /\ Answer.recommended \in Seq(ResourceTypes)
                      /\ \/ Answer.units = <<>>
                         \/ \E u \in free : Answer.units = <<u>>
    BY DEF GuardrailTypeOK, Faithful
  <2> QED
    BY AnswerIsDecided, DecidedRecord
<1> QED
  BY <1>1, AnswersAreFaithful, PTL

-----------------------------------------------------------------------------
(* The lineage *)

(* The clause shown is one of the rules met, the first in precedence.      *)
LEMMA ClauseIsFirst ==
    ASSUME NEW R, NEW k \in DOMAIN Clauses, Clauses[k] \in R
    PROVE  /\ PickClause(R) \in R
           /\ (\A j \in DOMAIN Clauses : j < k => Clauses[j] \notin R)
                => PickClause(R) = Clauses[k]
<1> DEFINE T == {j \in DOMAIN Clauses : Clauses[j] \in R}
<1>1. DOMAIN Clauses \subseteq Nat
  <2>1. DOMAIN Clauses = 1..11
    BY DEF Clauses
  <2> QED
    BY <2>1
<1>2. T \subseteq Nat /\ k \in T
  BY <1>1
<1>3. Least(T) \in T /\ Least(T) <= k
  BY <1>2, LeastIsLeast
<1>4. PickClause(R) = Clauses[Least(T)]
  BY DEF PickClause
<1>5. (\A j \in DOMAIN Clauses : j < k => Clauses[j] \notin R) => Least(T) = k
  BY <1>2, <1>3
<1> QED
  BY <1>3, <1>4, <1>5

(* Every rule a lineage can show has its place among the clauses.          *)
LEMMA RulesAreClauses ==
    ASSUME NEW r \in {"INPUT-REJECT", "MODEL-FAILURE", "DATA-QUALITY",
                      "LOW-CONFIDENCE", "LAYA-LOW-AC", "LAYA-REVIEW",
                      "LAYA-DEGRADED", "AUTO-APPROVE"}
    PROVE  \E k \in DOMAIN Clauses : Clauses[k] = r
<1>1. /\ DOMAIN Clauses = 1..11
      /\ Clauses[1] = "INPUT-REJECT" /\ Clauses[2] = "MODEL-FAILURE"
      /\ Clauses[3] = "DATA-QUALITY" /\ Clauses[4] = "LOW-CONFIDENCE"
      /\ Clauses[8] = "LAYA-DEGRADED" /\ Clauses[9] = "LAYA-LOW-AC"
      /\ Clauses[10] = "LAYA-REVIEW" /\ Clauses[11] = "AUTO-APPROVE"
  BY DEF Clauses
<1> QED
  BY <1>1

(* A case is held exactly by the rules that hold it.                       *)
LEMMA HoldsHaveRules ==
    ASSUME NEW a
    PROVE  /\ HoldRules(a) # {} <=> MustHold(a)
           /\ HoldRules(a) \subseteq {"LAYA-REVIEW", "LAYA-LOW-AC", "DATA-QUALITY",
                                      "LOW-CONFIDENCE"}
           /\ AdvisoryRules(a) \subseteq {"LAYA-FALLBACK", "LAYA-CRITICAL-BLOCKED"}
<1>1. /\ "LAYA-REVIEW" \in HoldRules(a) <=> a.laya.ok /\ a.laya.review
      /\ "LAYA-LOW-AC" \in HoldRules(a) <=> a.laya.ok /\ a.laya.conf < AnswerGate
      /\ "DATA-QUALITY" \in HoldRules(a) <=> DataQualityAnomaly(a)
      /\ "LOW-CONFIDENCE" \in HoldRules(a) <=> OverallBelowGate(a)
  BY DEF HoldRules
<1>2. HoldRules(a) \subseteq {"LAYA-REVIEW", "LAYA-LOW-AC", "DATA-QUALITY",
                              "LOW-CONFIDENCE"}
  BY DEF HoldRules
<1>3. HoldRules(a) # {} <=> MustHold(a)
  BY <1>1, <1>2 DEF MustHold, AdvisorHolds
<1>4. AdvisoryRules(a) \subseteq {"LAYA-FALLBACK", "LAYA-CRITICAL-BLOCKED"}
  BY DEF AdvisoryRules
<1> QED
  BY <1>2, <1>3, <1>4

(* The clause of a case some human must look at.                           *)
LEMMA ClauseOfAHeldCase ==
    ASSUME NEW c, NEW S, c.hard \/ ModelFailed(c.a) \/ MustHold(c.a)
    PROVE  LET clause == PickClause(Matched(c, S))
           IN  /\ clause = "INPUT-REJECT" <=> c.hard
               /\ clause = "MODEL-FAILURE" <=> ~c.hard /\ ModelFailed(c.a)
               /\ clause \notin {"CONTENTION", "AUTO-APPROVE", "LAYA-DEGRADED"}
<1> DEFINE M == Matched(c, S)
           clause == PickClause(M)
<1>1. CASE c.hard
  <2>1. M = {"INPUT-REJECT"}
    BY <1>1 DEF Matched
  <2>2. clause = "INPUT-REJECT"
    BY <2>1, ClauseIsFirst, RulesAreClauses
  <2> QED
    BY <1>1, <2>2
<1>2. CASE ~c.hard /\ ModelFailed(c.a)
  <2>1. M = {"MODEL-FAILURE"}
    BY <1>2 DEF Matched
  <2>2. clause = "MODEL-FAILURE"
    BY <2>1, ClauseIsFirst, RulesAreClauses
  <2> QED
    BY <1>2, <2>2
<1>3. CASE ~c.hard /\ ~ModelFailed(c.a)
  <2>1. PICK r : r \in HoldRules(c.a)
    BY <1>3, HoldsHaveRules
  <2>2. M = AdvisoryRules(c.a) \cup HoldRules(c.a)
    BY <1>3, <2>1 DEF Matched
  <2>3. clause \in AdvisoryRules(c.a) \cup HoldRules(c.a)
    <3>1. r \in {"LAYA-REVIEW", "LAYA-LOW-AC", "DATA-QUALITY", "LOW-CONFIDENCE"}
      BY <2>1, HoldsHaveRules
    <3>2. PICK k \in DOMAIN Clauses : Clauses[k] = r
      BY <3>1, RulesAreClauses
    <3> QED
      BY <2>1, <2>2, <3>2, ClauseIsFirst
  <2>4. clause \in {"LAYA-REVIEW", "LAYA-LOW-AC", "DATA-QUALITY", "LOW-CONFIDENCE",
                    "LAYA-FALLBACK", "LAYA-CRITICAL-BLOCKED"}
    BY <2>3, HoldsHaveRules
  <2> QED
    BY <1>3, <2>4
<1> QED
  BY <1>1, <1>2, <1>3

(* The clause of a case no human looks at: contention, whenever it is met. *)
LEMMA ClauseOfAnAutomatedCase ==
    ASSUME NEW c, NEW S, ~c.hard, ~ModelFailed(c.a), ~MustHold(c.a)
    PROVE  LET clause == PickClause(Matched(c, S))
           IN  /\ clause = "CONTENTION" <=> Contention(c, S)
               /\ clause \notin {"INPUT-REJECT", "MODEL-FAILURE"}
               /\ clause \notin HoldRules(c.a)
<1> DEFINE M == Matched(c, S)
           clause == PickClause(M)
           allowed == {"LAYA-FALLBACK", "LAYA-CRITICAL-BLOCKED", "AUTO-APPROVE",
                       "LAYA-DEGRADED", "CONTENTION"}
<1>1. HoldRules(c.a) = {}
  BY HoldsHaveRules
<1>2. M = AdvisoryRules(c.a)
          \cup ((IF c.a.laya.ok THEN {"AUTO-APPROVE"} ELSE {"LAYA-DEGRADED"})
                \cup {r \in {"CONTENTION"} : Contention(c, S)})
  BY <1>1 DEF Matched
<1>3. M \subseteq allowed /\ ("CONTENTION" \in M <=> Contention(c, S))
  <2>1. AdvisoryRules(c.a) \subseteq {"LAYA-FALLBACK", "LAYA-CRITICAL-BLOCKED"}
    BY HoldsHaveRules
  <2> QED
    BY <1>2, <2>1
<1>4. clause \in M
  <2>1. PICK r \in {"AUTO-APPROVE", "LAYA-DEGRADED"} : r \in M
    BY <1>2
  <2>2. PICK k \in DOMAIN Clauses : Clauses[k] = r
    BY RulesAreClauses
  <2> QED
    BY <2>1, <2>2, ClauseIsFirst
<1>5. Contention(c, S) => clause = "CONTENTION"
  <2>1. /\ DOMAIN Clauses = 1..11 /\ Clauses[5] = "CONTENTION"
        /\ Clauses[1] \notin allowed /\ Clauses[2] \notin allowed
        /\ Clauses[3] \notin allowed /\ Clauses[4] \notin allowed
    BY DEF Clauses
  <2>2. \A j \in DOMAIN Clauses : j < 5 => Clauses[j] \notin M
    BY <1>3, <2>1
  <2>3. 5 \in DOMAIN Clauses
    BY <2>1
  <2> QED
    BY <1>3, <2>1, <2>2, <2>3, ClauseIsFirst
<1> QED
  BY <1>1, <1>3, <1>4, <1>5

(* The clause an operator is shown agrees with the route the case took     *)
(* (lineage.py:22-56 against policy.py:98-300).                            *)
THEOREM ClauseFitsTheRouteHolds == PolicySpec => []ClauseFitsTheRoute
<1>1. Faithful => ClauseFitsTheRoute
  <2> DEFINE clause == PickClause(Matched(ctx, free))
  <2> SUFFICES ASSUME Faithful, Answered
               PROVE  /\ Answer.state = "REJECTED_INPUT" <=> clause = "INPUT-REJECT"
                      /\ Answer.state = "CONTENTION_ESCALATION" <=> clause = "CONTENTION"
                      /\ clause = "MODEL-FAILURE" =>
                            Answer.state = "MODEL_DEGRADED" /\ Answer.units = <<>>
                      /\ clause \in HoldRules(ctx.a) => Answer.source = "HUMAN_REQUIRED"
                      /\ clause \in {"AUTO-APPROVE", "LAYA-DEGRADED"} =>
                            Answer.source # "HUMAN_REQUIRED"
    BY DEF ClauseFitsTheRoute
  <2>1. Answer = Decide(ctx, free)
    BY AnswerIsDecided
  <2>2. CASE ctx.hard \/ ModelFailed(ctx.a) \/ MustHold(ctx.a)
    <3>1. /\ clause = "INPUT-REJECT" <=> ctx.hard
          /\ clause = "MODEL-FAILURE" <=> ~ctx.hard /\ ModelFailed(ctx.a)
          /\ clause \notin {"CONTENTION", "AUTO-APPROVE", "LAYA-DEGRADED"}
      BY <2>2, ClauseOfAHeldCase
    <3>2. /\ Answer.source = "HUMAN_REQUIRED" /\ Answer.units = <<>>
          /\ Answer.state = IF ctx.hard THEN "REJECTED_INPUT"
                            ELSE IF ModelFailed(ctx.a) THEN "MODEL_DEGRADED"
                            ELSE "HOLD_FOR_HUMAN"
      BY <2>1, <2>2 DEF Decide, Outcome
    <3> QED
      BY <3>1, <3>2
  <2>3. CASE ~ctx.hard /\ ~ModelFailed(ctx.a) /\ ~MustHold(ctx.a)
    <3>1. /\ clause = "CONTENTION" <=> Contention(ctx, free)
          /\ clause \notin {"INPUT-REJECT", "MODEL-FAILURE"}
          /\ clause \notin HoldRules(ctx.a)
      BY <2>3, ClauseOfAnAutomatedCase
    <3>2. Answer.source # "HUMAN_REQUIRED"
      BY <2>1, <2>3, DecidedByHuman
    <3>3. Answer.state = AutomatedState(ctx, free)
      BY <2>1, <2>3 DEF Decide, Automated
    <3>4. /\ Answer.state = "CONTENTION_ESCALATION" <=> Contention(ctx, free)
          /\ Answer.state # "REJECTED_INPUT"
      BY <3>3 DEF AutomatedState
    <3> QED
      BY <3>1, <3>2, <3>4
  <2> QED
    BY <2>2, <2>3
<1> QED
  BY <1>1, AnswersAreFaithful, PTL

-----------------------------------------------------------------------------
(* Evidence that comes through the pool *)

Untainted(case) == ~case.hard /\ ~case.contradicted /\ ~case.injected

Put(c) == [hard |-> request[c].case.hard, type |-> request[c].case.type,
           zone |-> request[c].case.zone, a |-> request[c].a,
           position |-> "RESPONSE_TIME"]

\* What a client holds is evidence; once all of it is there, tainted reports
\* show in the quality score; a decision was made of just that evidence.
EvidenceOf(c) ==
    /\ request[c] \in [at : ModelNames \cup {"idle", "laya"}, case : Cases, a : Assessment]
    /\ At(c, "laya") \/ record[c] # <<>> =>
          Untainted(request[c].case) \/ DataQualityAnomaly(request[c].a)
    /\ record[c] # <<>> =>
          At(c, "idle") /\ \E S : record[c] = <<Decide(Put(c), S)>>

EvidenceInv == /\ request = [c \in Clients |-> request[c]]
               /\ record = [c \in Clients |-> record[c]]
               /\ \A c \in Clients : EvidenceOf(c)

(* Whatever Laya hands back, the policy is told well-formed advice.        *)
LEMMA AdviceIsTyped ==
    ASSUME NEW r
    PROVE  AdviceOf(r) \in [ok : BOOLEAN, priority : Priorities, review : BOOLEAN,
                            conf : Percent, resource : ResourceTypes \cup {NoResource}]
<1>1. CASE ~Valid(r)
  BY <1>1 DEF AdviceOf, NoAdvice, Priorities, LOW, CRITICAL, Percent
<1>2. CASE Valid(r)
  <2>1. PriorityNamed(Chosen(r.priority)) \in Priorities
    <3>1. Chosen(r.priority) \in PriorityLabels
      BY <1>2 DEF Valid
    <3>2. PICK k \in DOMAIN PriorityName : PriorityName[k] = Chosen(r.priority)
      BY <3>1 DEF PriorityLabels
    <3>3. k - 1 \in Priorities /\ PriorityName[(k - 1) + 1] = Chosen(r.priority)
      <4>1. DOMAIN PriorityName = 1..4
        BY DEF PriorityName
      <4>2. k \in 1..4 /\ (k - 1) + 1 = k /\ k - 1 \in 0..3
        BY <3>2, <4>1
      <4> QED
        BY <3>2, <4>2 DEF Priorities, LOW, CRITICAL
    <3> QED
      BY <3>3 DEF PriorityNamed
  <2>2. AnswerConfidence(r.priority) \in Percent
    <3>1. \A l \in DOMAIN r.priority.dist : r.priority.dist[l] \in Percent
      BY <1>2 DEF Valid, ProperDistribution
    <3> QED
      BY <3>1 DEF AnswerConfidence, Percent
  <2>3. Chosen(r.resource) \in ResourceTypes
    BY <1>2 DEF Valid
  <2>4. (r.noul >= 50) \in BOOLEAN
    OBVIOUS
  <2> QED
    BY <1>2, <2>1, <2>2, <2>3, <2>4 DEF AdviceOf
<1> QED
  BY <1>1, <1>2

(* A model's answer, well or not, is one; taints show in the anomaly's.    *)
LEMMA OutputIsTyped ==
    ASSUME NEW m \in ModelNames, NEW case \in Cases, NEW output,
           \/ output = FailedOutput(m)
           \/ \E raw \in Raw[m] : output = Output(m, case, raw)
    PROVE  /\ m = "severity" => output \in [ok : BOOLEAN, pred : Priorities, conf : Percent]
           /\ m = "traffic" => output \in [ok : BOOLEAN, delta : Percent, conf : Percent]
           /\ m = "anomaly" =>
                /\ output \in [failed : BOOLEAN, score : Percent, situational : BOOLEAN]
                /\ Untainted(case) \/ output.failed \/ output.score >= AnomalyAt
<1>1. CASE output = FailedOutput(m)
  <2> USE DEF Priorities, LOW, CRITICAL, Percent
  <2>1. CASE m = "severity"
    <3>1. output = [ok |-> FALSE, pred |-> LOW, conf |-> 0]
      BY <1>1, <2>1 DEF FailedOutput, Failed
    <3> QED
      BY <2>1, <3>1
  <2>2. CASE m = "traffic"
    <3>1. output = [ok |-> FALSE, delta |-> 0, conf |-> 0]
      BY <1>1, <2>2 DEF FailedOutput, Failed
    <3> QED
      BY <2>2, <3>1
  <2>3. CASE m = "anomaly"
    <3>1. output = [failed |-> TRUE, score |-> 100, situational |-> FALSE]
      BY <1>1, <2>3 DEF FailedOutput, Failed
    <3> QED
      BY <2>3, <3>1
  <2> QED
    BY <2>1, <2>2, <2>3 DEF ModelNames
<1>2. CASE m # "anomaly" /\ \E raw \in Raw[m] : output = Output(m, case, raw)
  BY <1>2, ModelsAssumption DEF Output, ModelNames
<1>3. CASE m = "anomaly" /\ \E raw \in Raw[m] : output = Output(m, case, raw)
  <2>1. PICK raw \in Raw.anomaly : output = [raw EXCEPT !.score = QualityScore(case, raw.score)]
    BY <1>3 DEF Output
  <2>2. raw \in [failed : BOOLEAN, score : Percent, situational : BOOLEAN]
    BY <2>1, ModelsAssumption
  <2>3. /\ QualityScore(case, raw.score) \in Percent
        /\ Untainted(case) \/ QualityScore(case, raw.score) >= AnomalyAt
    BY <2>2 DEF QualityScore, AtLeast, AnomalyAt, Percent, Untainted
  <2> QED
    BY <1>3, <2>1, <2>2, <2>3
<1> QED
  BY <1>1, <1>2, <1>3

(* Before the first model is asked every reading is the worst.             *)
LEMMA NothingIsAssessed == NoAssessment \in Assessment
<1>1. /\ LOW \in Priorities /\ 0 \in Percent /\ 100 \in Percent
      /\ NoResource \in ResourceTypes \cup {NoResource}
  BY DEF Priorities, LOW, CRITICAL, Percent
<1>2. /\ Failed.severity = [ok |-> FALSE, pred |-> LOW, conf |-> 0]
      /\ Failed.traffic = [ok |-> FALSE, delta |-> 0, conf |-> 0]
      /\ Failed.anomaly = [failed |-> TRUE, score |-> 100, situational |-> FALSE]
  BY DEF Failed
<1>3. /\ Failed.severity \in [ok : BOOLEAN, pred : Priorities, conf : Percent]
      /\ Failed.traffic \in [ok : BOOLEAN, delta : Percent, conf : Percent]
      /\ Failed.anomaly \in [failed : BOOLEAN, score : Percent, situational : BOOLEAN]
      /\ NoAdvice \in [ok : BOOLEAN, priority : Priorities, review : BOOLEAN,
                       conf : Percent, resource : ResourceTypes \cup {NoResource}]
  BY <1>1, <1>2 DEF NoAdvice
<1> QED
  BY <1>1, <1>3 DEF NoAssessment, Assessment

(* The evidence grows by one output, and the next model is called.         *)
LEMMA EvidenceReceived ==
    ASSUME EvidenceInv, NEW c \in Clients, NEW output, Receives(c, output),
           Waits(c),
           \/ output = FailedOutput(request[c].at)
           \/ \E raw \in Raw[request[c].at] :
                 output = Output(request[c].at, request[c].case, raw)
    PROVE  EvidenceInv'
<1> DEFINE m == request[c].at
           b == CASE m = "severity" -> [request[c].a EXCEPT !.sev = output]
                  [] m = "traffic"  -> [request[c].a EXCEPT !.traffic = output]
                  [] m = "anomaly"  -> [request[c].a EXCEPT !.anomaly = output]
           new == [request[c] EXCEPT !.at = Following[m], !.a = b]
<1>1. /\ m \in ModelNames /\ request[c].case \in Cases /\ request[c].a \in Assessment
      /\ request[c] \in [at : ModelNames \cup {"idle", "laya"}, case : Cases, a : Assessment]
      /\ record[c] = <<>>
  BY DEF EvidenceInv, EvidenceOf, Waits, At, ModelNames
<1>2. /\ request' = [request EXCEPT ![c].at = Following[m], ![c].a = b]
      /\ record' = record
  BY DEF Receives
<1>3. b \in Assessment /\ (m = "anomaly" => b.anomaly = output)
  <2>1. CASE m = "severity"
    <3>1. output \in [ok : BOOLEAN, pred : Priorities, conf : Percent]
      BY <1>1, <2>1, OutputIsTyped
    <3>2. b = [request[c].a EXCEPT !.sev = output]
      BY <2>1
    <3> QED
      BY <1>1, <2>1, <3>1, <3>2 DEF Assessment
  <2>2. CASE m = "traffic"
    <3>1. output \in [ok : BOOLEAN, delta : Percent, conf : Percent]
      BY <1>1, <2>2, OutputIsTyped
    <3>2. b = [request[c].a EXCEPT !.traffic = output]
      BY <2>2
    <3> QED
      BY <1>1, <2>2, <3>1, <3>2 DEF Assessment
  <2>3. CASE m = "anomaly"
    <3>1. output \in [failed : BOOLEAN, score : Percent, situational : BOOLEAN]
      BY <1>1, <2>3, OutputIsTyped
    <3>2. b = [request[c].a EXCEPT !.anomaly = output]
      BY <2>3
    <3> QED
      BY <1>1, <2>3, <3>1, <3>2 DEF Assessment
  <2> QED
    BY <1>1, <2>1, <2>2, <2>3 DEF ModelNames
<1>4. /\ Following[m] \in ModelNames \cup {"laya"}
      /\ Following[m] = "laya" => m = "anomaly"
  BY <1>1 DEF Following, ModelNames
<1> HIDE DEF b
<1>5. /\ request'[c] = new /\ \A d \in Clients \ {c} : request'[d] = request[d]
      /\ request' = [d \in Clients |-> request'[d]]
  BY <1>2 DEF EvidenceInv
<1>6. /\ new.at = Following[m] /\ new.case = request[c].case /\ new.a = b
      /\ new \in [at : ModelNames \cup {"idle", "laya"}, case : Cases, a : Assessment]
  BY <1>1, <1>3, <1>4
<1> HIDE DEF new
<1>7. new.at = "laya" => Untainted(new.case) \/ DataQualityAnomaly(new.a)
  BY <1>1, <1>3, <1>4, <1>6, OutputIsTyped DEF DataQualityAnomaly
<1>8. ASSUME NEW d \in Clients
      PROVE  EvidenceOf(d)'
  <2>1. CASE d = c
    BY <1>1, <1>2, <1>5, <1>6, <1>7, <2>1 DEF EvidenceOf, At
  <2>2. CASE d # c
    BY <1>2, <1>5, <2>2 DEF EvidenceInv, EvidenceOf, At, Put
  <2> QED
    BY <2>1, <2>2
<1> QED
  BY <1>2, <1>5, <1>8 DEF EvidenceInv

\* The actions that touch neither what a client holds nor its decision.
Elsewhere == UNCHANGED <<request, record>>

(* Laya's advice completes the evidence; the policy decides on just that.  *)
LEMMA EvidenceAdvised ==
    ASSUME EvidenceInv, NEW c \in Clients, Advise(c)
    PROVE  EvidenceInv'
<1>1. /\ request[c].at = "laya" /\ request[c].case \in Cases
      /\ request[c].a \in Assessment
      /\ Untainted(request[c].case) \/ DataQualityAnomaly(request[c].a)
      /\ request[c] \in [at : ModelNames \cup {"idle", "laya"}, case : Cases, a : Assessment]
  BY DEF EvidenceInv, EvidenceOf, Advise, At
<1>2. PICK advice, S :
        LET a     == [request[c].a EXCEPT !.laya = advice]
            asked == [hard |-> request[c].case.hard, type |-> request[c].case.type,
                      zone |-> request[c].case.zone, a |-> a, position |-> "RESPONSE_TIME"]
        IN  /\ advice = NoAdvice \/ \E r : advice = AdviceOf(r)
            /\ record' = [record EXCEPT ![c] = <<Decide(asked, S)>>]
            /\ request' = [request EXCEPT ![c].at = "idle", ![c].a = a]
  BY DEF Advise
<1> DEFINE a == [request[c].a EXCEPT !.laya = advice]
           asked == [hard |-> request[c].case.hard, type |-> request[c].case.type,
                     zone |-> request[c].case.zone, a |-> a, position |-> "RESPONSE_TIME"]
           new == [request[c] EXCEPT !.at = "idle", !.a = a]
<1>3. /\ a \in Assessment
      /\ DataQualityAnomaly(request[c].a) => DataQualityAnomaly(a)
  <2>1. advice \in [ok : BOOLEAN, priority : Priorities, review : BOOLEAN,
                    conf : Percent, resource : ResourceTypes \cup {NoResource}]
    <3>1. NoAdvice \in [ok : BOOLEAN, priority : Priorities, review : BOOLEAN,
                        conf : Percent, resource : ResourceTypes \cup {NoResource}]
      BY DEF NoAdvice, Priorities, LOW, CRITICAL, Percent
    <3> QED
      BY <1>2, <3>1, AdviceIsTyped
  <2>2. a.anomaly = request[c].a.anomaly
    BY <1>1 DEF Assessment
  <2>3. a \in Assessment
    BY <1>1, <2>1 DEF Assessment
  <2>4. DataQualityAnomaly(request[c].a) => DataQualityAnomaly(a)
    BY <2>2 DEF DataQualityAnomaly
  <2> QED
    BY <2>3, <2>4
<1>4. /\ request'[c] = new /\ \A d \in Clients \ {c} : request'[d] = request[d]
      /\ request' = [d \in Clients |-> request'[d]]
  BY <1>2 DEF EvidenceInv
<1>5. /\ record'[c] = <<Decide(asked, S)>> /\ \A d \in Clients \ {c} : record'[d] = record[d]
      /\ record' = [d \in Clients |-> record'[d]]
  BY <1>2 DEF EvidenceInv
<1> HIDE DEF a
<1>6. /\ new.at = "idle" /\ new.case = request[c].case /\ new.a = a
      /\ new \in [at : ModelNames \cup {"idle", "laya"}, case : Cases, a : Assessment]
  BY <1>1, <1>3
<1> HIDE DEF new
<1>7. Put(c)' = asked
  BY <1>4, <1>6 DEF Put
<1> HIDE DEF asked
<1>8. ASSUME NEW d \in Clients
      PROVE  EvidenceOf(d)'
  <2>1. CASE d = c
    BY <1>1, <1>3, <1>4, <1>5, <1>6, <1>7, <2>1 DEF EvidenceOf, At
  <2>2. CASE d # c
    BY <1>4, <1>5, <2>2 DEF EvidenceInv, EvidenceOf, At, Put
  <2> QED
    BY <2>1, <2>2
<1> QED
  BY <1>4, <1>5, <1>8 DEF EvidenceInv

(* A new decision begins with nothing but its case.                        *)
LEMMA EvidenceBegun ==
    ASSUME EvidenceInv, NEW c \in Clients, Begin(c)
    PROVE  EvidenceInv'
<1>1. PICK case \in Cases :
        /\ request' = [request EXCEPT ![c] = [Idle EXCEPT !.at = "severity", !.case = case]]
        /\ record' = [record EXCEPT ![c] = <<>>]
  BY DEF Begin
<1> DEFINE new == [Idle EXCEPT !.at = "severity", !.case = case]
<1>2. /\ new.at = "severity"
      /\ new \in [at : ModelNames \cup {"idle", "laya"}, case : Cases, a : Assessment]
  <2>1. NoAssessment \in Assessment
    BY NothingIsAssessed
  <2> QED
    BY <2>1 DEF Idle, ModelNames
<1> HIDE DEF new
<1>3. /\ request'[c] = new /\ \A d \in Clients \ {c} : request'[d] = request[d]
      /\ request' = [d \in Clients |-> request'[d]]
  BY <1>1 DEF EvidenceInv, new
<1>4. /\ record'[c] = <<>> /\ \A d \in Clients \ {c} : record'[d] = record[d]
      /\ record' = [d \in Clients |-> record'[d]]
  BY <1>1 DEF EvidenceInv
<1>5. ASSUME NEW d \in Clients
      PROVE  EvidenceOf(d)'
  <2>1. CASE d = c
    BY <1>2, <1>3, <1>4, <2>1 DEF EvidenceOf, At
  <2>2. CASE d # c
    BY <1>3, <1>4, <2>2 DEF EvidenceInv, EvidenceOf, At, Put
  <2> QED
    BY <2>1, <2>2
<1> QED
  BY <1>3, <1>4, <1>5 DEF EvidenceInv

(* Every step keeps the evidence and the decision of every client.         *)
LEMMA EvidenceStep ==
    ASSUME EvidenceInv, [Next]_vars
    PROVE  EvidenceInv'
<1>1. ASSUME NEW c \in Clients, Begin(c) \/ Receive(c) \/ TimeOut(c) \/ Advise(c)
      PROVE  EvidenceInv'
  <2>1. CASE Begin(c)
    BY <2>1, EvidenceBegun
  <2>2. CASE Receive(c)
    <3>1. PICK output :
             /\ Waits(c) /\ Receives(c, output)
             /\ \/ output = FailedOutput(request[c].at)
                \/ \E raw \in Raw[request[c].at] :
                      output = Output(request[c].at, request[c].case, raw)
      BY <2>2 DEF Receive
    <3> QED
      BY <3>1, EvidenceReceived
  <2>3. CASE TimeOut(c)
    <3>1. Waits(c) /\ Receives(c, FailedOutput(request[c].at))
      BY <2>3 DEF TimeOut
    <3> QED
      BY <3>1, EvidenceReceived
  <2>4. CASE Advise(c)
    BY <2>4, EvidenceAdvised
  <2> QED
    BY <1>1, <2>1, <2>2, <2>3, <2>4
<1>2. ASSUME Elsewhere
      PROVE  EvidenceInv'
  <2>1. \A c \in Clients : EvidenceOf(c)'
    BY <1>2 DEF Elsewhere, EvidenceInv, EvidenceOf, At, Put
  <2> QED
    BY <1>2, <2>1 DEF Elsewhere, EvidenceInv
<1>3. ASSUME NEW w \in Workers, Take(w) \/ End(w)
      PROVE  Elsewhere
  BY <1>3 DEF Take, End, Elsewhere
<1>4. SpeedChanges \/ UNCHANGED vars => Elsewhere
  BY DEF SpeedChanges, vars, Elsewhere
<1> QED
  BY <1>1, <1>2, <1>3, <1>4 DEF Next

(* At first nobody has anything.                                           *)
LEMMA EvidenceInitially == Init => EvidenceInv
<1> SUFFICES ASSUME Init PROVE EvidenceInv
  OBVIOUS
<1>1. \A c \in Clients : request[c] = Idle /\ record[c] = <<>>
  BY DEF Init
<1>2. Idle.at = "idle"
      /\ Idle \in [at : ModelNames \cup {"idle", "laya"}, case : Cases, a : Assessment]
  <2>1. (CHOOSE c \in Cases : TRUE) \in Cases
    BY ModelsAssumption
  <2> QED
    BY <2>1, NothingIsAssessed DEF Idle
<1>3. \A c \in Clients : EvidenceOf(c)
  BY <1>1, <1>2 DEF EvidenceOf, At
<1> QED
  BY <1>3 DEF Init, EvidenceInv

(* A dispatch rests on three models that answered, on reports without a    *)
(* taint and on advice with half the mass behind it, whatever hung or came *)
(* late (engine.py:203-287, wrapper.py:16-77).                             *)
THEOREM DispatchRestsOnEvidenceHolds == Spec => []DispatchRestsOnEvidence
<1>1. Init => EvidenceInv
  BY EvidenceInitially
<1>2. EvidenceInv /\ [Next]_vars => EvidenceInv'
  BY EvidenceStep
<1>3. EvidenceInv => DispatchRestsOnEvidence
  <2> SUFFICES ASSUME EvidenceInv, NEW c \in Clients,
                      record[c] # <<>>, record[c][1].units # <<>>
               PROVE  LET case == request[c].case
                          a == request[c].a
                      IN  /\ a.sev.ok /\ a.traffic.ok /\ ~a.anomaly.failed
                          /\ ~case.hard /\ ~case.contradicted /\ ~case.injected
                          /\ a.laya.ok => a.laya.conf >= AnswerGate
    BY DEF DispatchRestsOnEvidence
  <2>1. /\ request[c].a \in Assessment
        /\ Untainted(request[c].case) \/ DataQualityAnomaly(request[c].a)
        /\ \E S : record[c] = <<Decide(Put(c), S)>>
    BY DEF EvidenceInv, EvidenceOf
  <2>2. PICK S : record[c] = <<Decide(Put(c), S)>>
    BY <2>1
  <2>3. Decide(Put(c), S).units # <<>>
    BY <2>2
  <2>4. Put(c).a = request[c].a
    BY DEF Put
  <2>5. ~ModelFailed(request[c].a) /\ ~MustHold(request[c].a)
    BY <2>3, <2>4, DecidedUnits
  <2>6. request[c].a.laya.conf \in Int
    <3>1. \A x \in Assessment : x.laya.conf \in 0..100
      BY DEF Assessment, Percent
    <3>2. request[c].a.laya.conf \in 0..100
      BY <2>1, <3>1, Zenon
    <3>3. \A n \in 0..100 : n \in Int
      OBVIOUS
    <3> QED
      BY <3>2, <3>3, Zenon
  <2>7. /\ request[c].a.sev.ok /\ request[c].a.traffic.ok
        /\ ~request[c].a.anomaly.failed
    BY <2>5 DEF ModelFailed
  <2>8. Untainted(request[c].case)
    BY <2>1, <2>5 DEF MustHold
  <2>9. request[c].a.laya.ok => request[c].a.laya.conf >= AnswerGate
    BY <2>5, <2>6 DEF MustHold, AdvisorHolds, AnswerGate
  <2>10. /\ ~request[c].case.hard /\ ~request[c].case.contradicted
         /\ ~request[c].case.injected
    BY <2>8 DEF Untainted
  <2> QED
    BY <2>7, <2>9, <2>10, Zenon
<1> QED
  BY <1>1, <1>2, <1>3, PTL DEF Spec

-----------------------------------------------------------------------------
(* The pool *)

\* Where a job of c's present call is queued, and who runs one.
PlacesIn(q, c)  == {k \in DOMAIN q : IsOf(q[k], c)}
HoldersIn(r, c) == {w \in Workers : IsOf(r[w], c)}

Pending(c) == Waits(c) /\ future[c] = "pending"

\* A call that has no answer yet has its one job, queued or running; no other
\* call has any.
OneJob(c) ==
    IF Pending(c)
    THEN \/ /\ \E k \in DOMAIN queue : PlacesIn(queue, c) = {k}
            /\ HoldersIn(running, c) = {}
         \/ /\ PlacesIn(queue, c) = {}
            /\ \E w \in Workers : HoldersIn(running, c) = {w}
    ELSE PlacesIn(queue, c) = {} /\ HoldersIn(running, c) = {}

\* A job still awaited is for the model its client waits for.
Apt(j) == j.live => At(j.client, j.model)

PoolInv == /\ EvidenceInv
           /\ queue \in Seq(Job) /\ running \in [Workers -> Job \cup {NoJob}]
           /\ future = [c \in Clients |-> future[c]]
           /\ \A c \in Clients : OneJob(c)
           /\ \A k \in DOMAIN queue : Apt(queue[k])
           /\ \A w \in Workers : running[w] # NoJob => Apt(running[w])

LEMMA JobsAreReal ==
    /\ NoJob \notin Job
    /\ \A c \in Clients, m \in ModelNames :
          /\ NewJob(c, m) \in Job /\ NewJob(c, m).live
          /\ NewJob(c, m).client = c /\ NewJob(c, m).model = m
    /\ \A j \in Job : /\ Abandoned(j) \in Job /\ ~Abandoned(j).live
                      /\ j.client \in Clients /\ j.live \in BOOLEAN
    /\ \A c, d : c # d => \A j \in Job : ~(IsOf(j, c) /\ IsOf(j, d))
BY ModelsAssumption DEF Job, NewJob, Abandoned, IsOf

(* A job added to a queue is one more place of its client.                 *)
LEMMA PlacesAppend ==
    ASSUME NEW q \in Seq(Job), NEW j \in Job, NEW c
    PROVE  /\ Append(q, j) \in Seq(Job)
           /\ PlacesIn(Append(q, j), c)
                = PlacesIn(q, c) \cup (IF IsOf(j, c) THEN {Len(q) + 1} ELSE {})
           /\ Len(q) + 1 \in DOMAIN Append(q, j)
           /\ \A k \in DOMAIN Append(q, j) :
                 Append(q, j)[k] = j \/ (k \in DOMAIN q /\ Append(q, j)[k] = q[k])
<1> DEFINE r == Append(q, j)
<1>1. /\ Len(q) \in Nat /\ DOMAIN q = 1..Len(q)
      /\ r \in Seq(Job) /\ Len(r) = Len(q) + 1
      /\ \A i \in 1..Len(q) : r[i] = q[i]
      /\ r[Len(q) + 1] = j
  BY LenProperties, AppendProperties
<1>2. DOMAIN r = 1..(Len(q) + 1)
  BY <1>1, LenProperties
<1> HIDE DEF r
<1>3. 1..(Len(q) + 1) = 1..Len(q) \cup {Len(q) + 1} /\ Len(q) + 1 \notin 1..Len(q)
  BY <1>1
<1>4. PlacesIn(r, c) = PlacesIn(q, c) \cup (IF IsOf(j, c) THEN {Len(q) + 1} ELSE {})
  BY <1>1, <1>2, <1>3 DEF PlacesIn
<1> QED
  BY <1>1, <1>2, <1>3, <1>4 DEF r

(* A job taken from a queue is one place of its client less.               *)
LEMMA PlacesTail ==
    ASSUME NEW q \in Seq(Job), q # <<>>, NEW c
    PROVE  /\ Head(q) \in Job /\ Tail(q) \in Seq(Job)
           /\ \A k \in DOMAIN Tail(q) : k + 1 \in DOMAIN q /\ Tail(q)[k] = q[k + 1]
           /\ 1 \in DOMAIN q /\ Head(q) = q[1]
           /\ PlacesIn(Tail(q), c) = {k \in DOMAIN Tail(q) : k + 1 \in PlacesIn(q, c)}
           /\ \A k \in DOMAIN q : k = 1 \/ k - 1 \in DOMAIN Tail(q)
<1> DEFINE r == Tail(q)
<1>1. /\ Len(q) \in Nat /\ DOMAIN q = 1..Len(q) /\ Len(q) # 0
      /\ Head(q) = q[1]
      /\ r \in Seq(Job) /\ Len(r) = Len(q) - 1
      /\ \A i \in 1..Len(r) : r[i] = q[i + 1]
  BY LenProperties, HeadTailProperties, EmptySeq
<1>2. DOMAIN r = 1..(Len(q) - 1)
  BY <1>1, LenProperties
<1>3. Head(q) \in Job
  BY <1>1, ElementOfSeq
<1> HIDE DEF r
<1>4. \A k \in DOMAIN r : k + 1 \in DOMAIN q /\ r[k] = q[k + 1]
  BY <1>1, <1>2
<1>5. PlacesIn(r, c) = {k \in DOMAIN r : k + 1 \in PlacesIn(q, c)}
  BY <1>4 DEF PlacesIn
<1>6. 1 \in DOMAIN q /\ \A k \in DOMAIN q : k = 1 \/ k - 1 \in DOMAIN r
  BY <1>1, <1>2
<1> QED
  BY <1>1, <1>3, <1>4, <1>5, <1>6 DEF r

(* A call that ends takes its job out of the count, wherever the job is.   *)
LEMMA JobGivenUp ==
    ASSUME PoolInv, NEW c \in Clients, NEW rest, NEW ran,
           rest = [k \in DOMAIN queue |->
                     IF IsOf(queue[k], c) THEN Abandoned(queue[k]) ELSE queue[k]],
           ran  = [w \in Workers |->
                     IF IsOf(running[w], c) THEN Abandoned(running[w]) ELSE running[w]]
    PROVE  /\ rest \in Seq(Job) /\ ran \in [Workers -> Job \cup {NoJob}]
           /\ PlacesIn(rest, c) = {} /\ HoldersIn(ran, c) = {}
           /\ \A d : d # c => /\ PlacesIn(rest, d) = PlacesIn(queue, d)
                              /\ HoldersIn(ran, d) = HoldersIn(running, d)
           /\ \A k \in DOMAIN rest : rest[k].live =>
                 k \in DOMAIN queue /\ rest[k] = queue[k] /\ rest[k].client # c
           /\ \A w \in Workers : ran[w] # NoJob /\ ran[w].live =>
                 ran[w] = running[w] /\ ran[w].client # c
<1>1. /\ \A k \in DOMAIN queue : queue[k] \in Job
      /\ \A w \in Workers : running[w] \in Job \cup {NoJob}
      /\ Len(queue) \in Nat /\ DOMAIN queue = 1..Len(queue)
  BY ElementOfSeq, LenProperties DEF PoolInv
<1>2. /\ \A k \in DOMAIN queue : rest[k] = IF IsOf(queue[k], c) THEN Abandoned(queue[k])
                                                               ELSE queue[k]
      /\ \A w \in Workers : ran[w] = IF IsOf(running[w], c) THEN Abandoned(running[w])
                                                            ELSE running[w]
      /\ DOMAIN rest = DOMAIN queue
  OBVIOUS
<1>3. \A k \in DOMAIN queue : rest[k] \in Job
  BY <1>1, <1>2, JobsAreReal
<1>4. rest \in Seq(Job)
  BY <1>1, <1>3, SeqDef
<1>5. \A w \in Workers : ran[w] \in Job \cup {NoJob}
  BY <1>1, <1>2, JobsAreReal DEF IsOf
<1>6. ran \in [Workers -> Job \cup {NoJob}]
  BY <1>5
<1>7. /\ \A j \in Job : \A d : ~IsOf(Abandoned(j), d)
      /\ \A j, d : d # c /\ IsOf(j, c) => ~IsOf(j, d)
  BY JobsAreReal DEF IsOf
<1>8. PlacesIn(rest, c) = {} /\ HoldersIn(ran, c) = {}
  <2>1. \A k \in DOMAIN queue : ~IsOf(rest[k], c)
    BY <1>1, <1>2, <1>7
  <2>2. \A w \in Workers : ~IsOf(ran[w], c)
    <3> SUFFICES ASSUME NEW w \in Workers PROVE ~IsOf(ran[w], c)
      OBVIOUS
    <3>1. CASE IsOf(running[w], c)
      <4>1. running[w] \in Job
        BY <1>1, <3>1 DEF IsOf
      <4> QED
        BY <1>2, <1>7, <3>1, <4>1
    <3>2. CASE ~IsOf(running[w], c)
      BY <1>2, <3>2
    <3> QED
      BY <3>1, <3>2
  <2> QED
    BY <1>2, <2>1, <2>2 DEF PlacesIn, HoldersIn
<1>9. ASSUME NEW d, d # c
      PROVE  /\ PlacesIn(rest, d) = PlacesIn(queue, d)
             /\ HoldersIn(ran, d) = HoldersIn(running, d)
  <2>1. ASSUME NEW k \in DOMAIN queue
        PROVE  IsOf(rest[k], d) <=> IsOf(queue[k], d)
    <3>1. CASE IsOf(queue[k], c)
      BY <1>1, <1>2, <1>7, <1>9, <3>1
    <3>2. CASE ~IsOf(queue[k], c)
      BY <1>2, <3>2
    <3> QED
      BY <3>1, <3>2
  <2>2. ASSUME NEW w \in Workers
        PROVE  IsOf(ran[w], d) <=> IsOf(running[w], d)
    <3>1. CASE IsOf(running[w], c)
      <4>1. running[w] \in Job
        BY <1>1, <3>1 DEF IsOf
      <4> QED
        BY <1>2, <1>7, <1>9, <3>1, <4>1
    <3>2. CASE ~IsOf(running[w], c)
      BY <1>2, <3>2
    <3> QED
      BY <3>1, <3>2
  <2> QED
    BY <1>2, <2>1, <2>2 DEF PlacesIn, HoldersIn
<1>10. \A k \in DOMAIN rest : rest[k].live =>
          k \in DOMAIN queue /\ rest[k] = queue[k] /\ rest[k].client # c
  BY <1>1, <1>2, JobsAreReal DEF IsOf
<1>11. \A w \in Workers : ran[w] # NoJob /\ ran[w].live =>
          ran[w] = running[w] /\ ran[w].client # c
  BY <1>1, <1>2, JobsAreReal DEF IsOf
<1> QED
  BY <1>4, <1>6, <1>8, <1>9, <1>10, <1>11

(* What others hold and await is theirs, whatever c's request becomes.     *)
LEMMA OthersKeepTheirJob ==
    ASSUME PoolInv, NEW c, NEW d \in Clients, d # c,
           request'[d] = request[d], future'[d] = future[d],
           PlacesIn(queue, d)' = PlacesIn(queue, d),
           HoldersIn(running, d)' = HoldersIn(running, d)
    PROVE  OneJob(d)'
<1>1. Pending(d)' <=> Pending(d)
  BY DEF Pending, Waits
<1>2. OneJob(d)
  BY DEF PoolInv
<1>3. \A k \in DOMAIN queue : PlacesIn(queue, d) = {k} =>
         k \in DOMAIN queue' /\ PlacesIn(queue, d)' = {k}
  BY DEF PlacesIn
<1> QED
  BY <1>1, <1>2, <1>3 DEF OneJob

(* The first call of a decision queues its job.                            *)
LEMMA PoolBegin ==
    ASSUME PoolInv, EvidenceInv', NEW c \in Clients, Begin(c)
    PROVE  PoolInv'
<1> DEFINE j == NewJob(c, "severity")
<1>1. /\ request[c].at = "idle" /\ queue' = Append(queue, j) /\ running' = running
      /\ future' = [future EXCEPT ![c] = "pending"]
      /\ \A d \in Clients \ {c} : request'[d] = request[d]
      /\ request'[c].at = "severity"
  <2>1. PICK case \in Cases :
          request' = [request EXCEPT ![c] = [Idle EXCEPT !.at = "severity", !.case = case]]
    BY DEF Begin
  <2>2. [Idle EXCEPT !.at = "severity", !.case = case].at = "severity"
    BY DEF Idle
  <2> QED
    BY <2>1, <2>2 DEF Begin, At, PoolInv, EvidenceInv
<1>2. /\ future'[c] = "pending" /\ \A d \in Clients \ {c} : future'[d] = future[d]
      /\ future' = [d \in Clients |-> future'[d]]
  BY <1>1 DEF PoolInv
<1>3. /\ j \in Job /\ j.live /\ j.client = c /\ j.model = "severity"
      /\ IsOf(j, c) /\ \A d : d # c => ~IsOf(j, d)
  BY JobsAreReal DEF ModelNames, IsOf
<1> HIDE DEF j
<1>4. queue \in Seq(Job) /\ PlacesIn(queue, c) = {} /\ HoldersIn(running, c) = {}
  BY <1>1 DEF PoolInv, OneJob, Pending, Waits, ModelNames
<1>5. /\ queue' \in Seq(Job) /\ PlacesIn(queue', c) = {Len(queue) + 1}
      /\ Len(queue) + 1 \in DOMAIN queue'
      /\ \A d : d # c => PlacesIn(queue', d) = PlacesIn(queue, d)
  <2>1. \A d : PlacesIn(queue', d)
                 = PlacesIn(queue, d) \cup (IF IsOf(j, d) THEN {Len(queue) + 1} ELSE {})
    BY <1>1, <1>3, <1>4, PlacesAppend
  <2>2. queue' \in Seq(Job) /\ Len(queue) + 1 \in DOMAIN queue'
    BY <1>1, <1>3, <1>4, PlacesAppend
  <2>3. PlacesIn(queue', c) = {Len(queue) + 1}
    BY <1>3, <1>4, <2>1
  <2>4. \A d : d # c => PlacesIn(queue', d) = PlacesIn(queue, d)
    BY <1>3, <2>1
  <2> QED
    BY <2>2, <2>3, <2>4
<1>6. \A d \in Clients : OneJob(d)'
  <2>1. OneJob(c)'
    BY <1>1, <1>2, <1>4, <1>5 DEF OneJob, Pending, Waits, ModelNames
  <2>2. ASSUME NEW d \in Clients, d # c PROVE OneJob(d)'
    <3>1. PlacesIn(queue, d)' = PlacesIn(queue, d)
      BY <1>5, <2>2 DEF PlacesIn
    <3>2. HoldersIn(running, d)' = HoldersIn(running, d)
      BY <1>1 DEF HoldersIn
    <3> QED
      BY <1>1, <1>2, <2>2, <3>1, <3>2, OthersKeepTheirJob
  <2> QED
    BY <2>1, <2>2
<1>7. ASSUME NEW i \in Job, Apt(i), i.client # c
      PROVE  Apt(i)'
  BY <1>1, <1>7, JobsAreReal DEF Apt, At
<1>8. \A k \in DOMAIN queue : queue[k] \in Job /\ Apt(queue[k])
                              /\ (queue[k].live => queue[k].client # c)
  <2> SUFFICES ASSUME NEW k \in DOMAIN queue
               PROVE  queue[k] \in Job /\ Apt(queue[k]) /\ (queue[k].live => queue[k].client # c)
    OBVIOUS
  <2>1. queue[k] \in Job /\ queue[k] # NoJob
    BY <1>4, ElementOfSeq, LenProperties, JobsAreReal
  <2>2. ~IsOf(queue[k], c)
    BY <1>4 DEF PlacesIn
  <2> QED
    BY <2>1, <2>2 DEF IsOf, PoolInv
<1>9. \A w \in Workers : running[w] # NoJob =>
         /\ running[w] \in Job /\ Apt(running[w])
         /\ running[w].live => running[w].client # c
  BY <1>4 DEF PoolInv, HoldersIn, IsOf
<1>10. \A i \in Job : ~i.live => Apt(i)'
  BY DEF Apt
<1>11. Apt(j)'
  BY <1>1, <1>3 DEF Apt, At
<1>12. (\A k \in DOMAIN queue : Apt(queue[k]))'
  BY <1>1, <1>3, <1>4, <1>7, <1>8, <1>10, <1>11, PlacesAppend
<1>13. (\A w \in Workers : running[w] # NoJob => Apt(running[w]))'
  BY <1>1, <1>7, <1>9, <1>10
<1> QED
  BY <1>1, <1>2, <1>5, <1>6, <1>12, <1>13 DEF PoolInv

(* An answer, a failure or a deadline ends a call; the next one begins.    *)
LEMMA PoolReceives ==
    ASSUME PoolInv, EvidenceInv', NEW c \in Clients, NEW output, Waits(c),
           Receives(c, output)
    PROVE  PoolInv'
<1>1. PICK next : /\ next = Following[request[c].at]
                  /\ request'[c].at = next
                  /\ \A d \in Clients \ {c} : request'[d] = request[d]
                  /\ next \in ModelNames \cup {"laya"}
  <2>1. PICK next : next = Following[request[c].at]
    OBVIOUS
  <2>2. PICK b : request' = [request EXCEPT ![c].at = next, ![c].a = b]
    BY <2>1 DEF Receives
  <2>3. request = [d \in Clients |-> request[d]]
        /\ request[c] \in [at : ModelNames \cup {"idle", "laya"}, case : Cases, a : Assessment]
    BY DEF PoolInv, EvidenceInv, EvidenceOf
  <2>4. next \in ModelNames \cup {"laya"}
    BY <2>1 DEF Waits, Following, ModelNames
  <2> QED
    BY <2>1, <2>2, <2>3, <2>4
<1> DEFINE j == NewJob(c, next)
<1>2. PICK rest, ran :
        /\ running' = ran
        /\ IF next = "laya" THEN queue' = rest /\ future' = [future EXCEPT ![c] = "none"]
           ELSE queue' = Append(rest, j) /\ future' = [future EXCEPT ![c] = "pending"]
        /\ rest = [k \in DOMAIN queue |->
                     IF IsOf(queue[k], c) THEN Abandoned(queue[k]) ELSE queue[k]]
        /\ ran  = [w \in Workers |->
                     IF IsOf(running[w], c) THEN Abandoned(running[w]) ELSE running[w]]
  BY <1>1 DEF Receives
<1>3. /\ rest \in Seq(Job) /\ ran \in [Workers -> Job \cup {NoJob}]
      /\ PlacesIn(rest, c) = {} /\ HoldersIn(ran, c) = {}
      /\ \A d : d # c => /\ PlacesIn(rest, d) = PlacesIn(queue, d)
                         /\ HoldersIn(ran, d) = HoldersIn(running, d)
      /\ \A k \in DOMAIN rest : rest[k].live =>
            k \in DOMAIN queue /\ rest[k] = queue[k] /\ rest[k].client # c
      /\ \A w \in Workers : ran[w] # NoJob /\ ran[w].live =>
            ran[w] = running[w] /\ ran[w].client # c
  BY <1>2, JobGivenUp
<1>4. ASSUME NEW i \in Job, Apt(i), i.client # c
      PROVE  Apt(i)'
  BY <1>1, <1>4, JobsAreReal DEF Apt, At
<1>5. \A i : ~i.live => Apt(i)'
  BY DEF Apt
<1>6. \A k \in DOMAIN rest : Apt(rest[k])'
  <2> SUFFICES ASSUME NEW k \in DOMAIN rest, rest[k].live PROVE Apt(rest[k])'
    BY <1>5
  <2>1. rest[k] \in Job
    BY <1>3, ElementOfSeq, LenProperties
  <2>2. Apt(rest[k]) /\ rest[k].client # c
    BY <1>3 DEF PoolInv
  <2> QED
    BY <1>4, <2>1, <2>2
<1>7. (\A w \in Workers : running[w] # NoJob => Apt(running[w]))'
  <2> SUFFICES ASSUME NEW w \in Workers, ran[w] # NoJob, ran[w].live PROVE Apt(ran[w])'
    BY <1>2, <1>5
  <2>1. ran[w] \in Job
    BY <1>3
  <2>2. Apt(ran[w]) /\ ran[w].client # c
    BY <1>3 DEF PoolInv
  <2> QED
    BY <1>4, <2>1, <2>2
<1>8. \A d \in Clients : HoldersIn(running, d)' = HoldersIn(ran, d)
  BY <1>2 DEF HoldersIn
<1>9. CASE next = "laya"
  <2>1. queue' = rest /\ future' = [future EXCEPT ![c] = "none"]
    BY <1>2, <1>9
  <2>2. /\ future'[c] = "none" /\ \A d \in Clients \ {c} : future'[d] = future[d]
        /\ future' = [d \in Clients |-> future'[d]]
    BY <2>1 DEF PoolInv
  <2>3. \A d \in Clients : PlacesIn(queue, d)' = PlacesIn(rest, d)
    BY <2>1 DEF PlacesIn
  <2>4. OneJob(c)'
    BY <1>3, <1>8, <2>2, <2>3 DEF OneJob, Pending
  <2>5. ASSUME NEW d \in Clients, d # c PROVE OneJob(d)'
    <3>1. /\ PlacesIn(queue, d)' = PlacesIn(queue, d)
          /\ HoldersIn(running, d)' = HoldersIn(running, d)
      BY <1>3, <1>8, <2>3, <2>5
    <3> QED
      BY <1>1, <2>2, <2>5, <3>1, OthersKeepTheirJob
  <2>6. (\A k \in DOMAIN queue : Apt(queue[k]))'
    BY <1>6, <2>1
  <2> QED
    BY <1>2, <1>3, <1>7, <2>1, <2>2, <2>4, <2>5, <2>6 DEF PoolInv
<1>10. CASE next # "laya"
  <2>1. queue' = Append(rest, j) /\ future' = [future EXCEPT ![c] = "pending"]
    BY <1>2, <1>10
  <2>2. /\ future'[c] = "pending" /\ \A d \in Clients \ {c} : future'[d] = future[d]
        /\ future' = [d \in Clients |-> future'[d]]
    BY <2>1 DEF PoolInv
  <2>3. /\ j \in Job /\ j.live /\ j.client = c /\ j.model = next
        /\ IsOf(j, c) /\ \A d : d # c => ~IsOf(j, d)
    BY <1>1, <1>10, JobsAreReal DEF IsOf
  <2> HIDE DEF j
  <2>4. /\ queue' \in Seq(Job) /\ Len(rest) + 1 \in DOMAIN queue'
        /\ \A k \in DOMAIN queue' :
              queue'[k] = j \/ (k \in DOMAIN rest /\ queue'[k] = rest[k])
        /\ \A d : PlacesIn(queue', d)
                    = PlacesIn(rest, d) \cup (IF IsOf(j, d) THEN {Len(rest) + 1} ELSE {})
    BY <1>3, <2>1, <2>3, PlacesAppend
  <2>5. PlacesIn(queue, c)' = {Len(rest) + 1}
    BY <1>3, <2>3, <2>4 DEF PlacesIn
  <2>6. \A d \in Clients : d # c => PlacesIn(queue, d)' = PlacesIn(rest, d)
    BY <2>3, <2>4 DEF PlacesIn
  <2>7. OneJob(c)'
    BY <1>1, <1>3, <1>8, <1>10, <2>2, <2>4, <2>5 DEF OneJob, Pending, Waits
  <2>8. ASSUME NEW d \in Clients, d # c PROVE OneJob(d)'
    <3>1. /\ PlacesIn(queue, d)' = PlacesIn(queue, d)
          /\ HoldersIn(running, d)' = HoldersIn(running, d)
      BY <1>3, <1>8, <2>6, <2>8
    <3> QED
      BY <1>1, <2>2, <2>8, <3>1, OthersKeepTheirJob
  <2>9. Apt(j)'
    BY <1>1, <2>3 DEF Apt, At
  <2>10. (\A k \in DOMAIN queue : Apt(queue[k]))'
    BY <1>6, <2>4, <2>9
  <2> QED
    BY <1>2, <1>3, <1>7, <2>2, <2>4, <2>7, <2>8, <2>10 DEF PoolInv
<1> QED
  BY <1>9, <1>10

(* A worker takes the first job: it is no longer queued, but run.          *)
LEMMA PoolTake ==
    ASSUME PoolInv, EvidenceInv', NEW w \in Workers, Take(w)
    PROVE  PoolInv'
<1> DEFINE j == queue[1]
<1>1. /\ running[w] = NoJob /\ queue # <<>> /\ queue \in Seq(Job)
      /\ running \in [Workers -> Job \cup {NoJob}]
      /\ queue' = Tail(queue) /\ running' = [running EXCEPT ![w] = Head(queue)]
      /\ request' = request /\ future' = future
  BY DEF Take, PoolInv
<1>2. /\ Head(queue) = j /\ j \in Job /\ j # NoJob /\ 1 \in DOMAIN queue
      /\ queue' \in Seq(Job)
      /\ \A k \in DOMAIN queue' : k + 1 \in DOMAIN queue /\ queue'[k] = queue[k + 1]
      /\ \A k \in DOMAIN queue : k = 1 \/ k - 1 \in DOMAIN queue'
      /\ DOMAIN queue \subseteq Nat /\ DOMAIN queue' \subseteq Nat
  BY <1>1, PlacesTail, JobsAreReal, LenProperties
<1>3. /\ running' \in [Workers -> Job \cup {NoJob}] /\ running'[w] = j
      /\ \A v \in Workers \ {w} : running'[v] = running[v]
  BY <1>1, <1>2
<1>4. \A d : PlacesIn(queue', d) = {k \in DOMAIN queue' : k + 1 \in PlacesIn(queue, d)}
  BY <1>1, PlacesTail
<1> HIDE DEF j
<1>5. \A d : HoldersIn(running', d)
               = HoldersIn(running, d) \cup (IF IsOf(j, d) THEN {w} ELSE {})
  BY <1>1, <1>3 DEF HoldersIn, IsOf
<1>6. \A d : 1 \in PlacesIn(queue, d) <=> IsOf(j, d)
  BY <1>2 DEF PlacesIn, j
<1>7. ASSUME NEW d \in Clients
      PROVE  OneJob(d)'
  <2>1. OneJob(d) /\ (Pending(d)' <=> Pending(d))
    BY <1>1 DEF PoolInv, Pending, Waits
  <2>2. CASE PlacesIn(queue, d) = {}
    <3>1. PlacesIn(queue', d) = {} /\ HoldersIn(running', d) = HoldersIn(running, d)
      BY <1>4, <1>5, <1>6, <2>2
    <3>2. PlacesIn(queue, d)' = {} /\ HoldersIn(running, d)' = HoldersIn(running, d)
      BY <3>1 DEF PlacesIn, HoldersIn
    <3> QED
      BY <2>1, <2>2, <3>2 DEF OneJob
  <2>3. CASE PlacesIn(queue, d) # {}
    <3>1. /\ Pending(d) /\ HoldersIn(running, d) = {}
          /\ \E k \in DOMAIN queue : PlacesIn(queue, d) = {k}
      BY <2>1, <2>3 DEF OneJob
    <3>2. PICK k \in DOMAIN queue : PlacesIn(queue, d) = {k}
      BY <3>1
    <3>3. CASE k = 1
      <4>1. PlacesIn(queue', d) = {}
        BY <1>2, <1>4, <3>2, <3>3
      <4>2. HoldersIn(running', d) = {w}
        BY <1>5, <1>6, <3>1, <3>2, <3>3
      <4>3. PlacesIn(queue, d)' = {} /\ HoldersIn(running, d)' = {w}
        BY <4>1, <4>2 DEF PlacesIn, HoldersIn
      <4> QED
        BY <2>1, <3>1, <4>3 DEF OneJob
    <3>4. CASE k # 1
      <4>1. k - 1 \in DOMAIN queue' /\ PlacesIn(queue', d) = {k - 1}
        BY <1>2, <1>4, <3>2, <3>4
      <4>2. HoldersIn(running', d) = {}
        BY <1>5, <1>6, <3>1, <3>2, <3>4
      <4>3. PlacesIn(queue, d)' = {k - 1} /\ HoldersIn(running, d)' = {}
        BY <4>1, <4>2 DEF PlacesIn, HoldersIn
      <4> QED
        BY <2>1, <3>1, <4>1, <4>3 DEF OneJob
    <3> QED
      BY <3>3, <3>4
  <2> QED
    BY <2>2, <2>3
<1>8. \A i : Apt(i)' <=> Apt(i)
  BY <1>1 DEF Apt, At
<1>9. (\A k \in DOMAIN queue : Apt(queue[k]))'
  BY <1>2, <1>8 DEF PoolInv
<1>10. (\A v \in Workers : running[v] # NoJob => Apt(running[v]))'
  BY <1>2, <1>3, <1>8 DEF PoolInv, j
<1> QED
  BY <1>1, <1>2, <1>3, <1>7, <1>9, <1>10 DEF PoolInv

(* A prediction ends: its client has its answer, or nobody waits for it.   *)
LEMMA PoolEnd ==
    ASSUME PoolInv, EvidenceInv', NEW w \in Workers, End(w)
    PROVE  PoolInv'
<1>1. PICK j : /\ j = running[w] /\ j # NoJob /\ j \in Job /\ Apt(j)
  BY DEF End, PoolInv
<1>2. PICK outcome \in {"ok", "raised"} :
        future' = IF j.live THEN [future EXCEPT ![j.client] = outcome] ELSE future
  BY <1>1 DEF End
<1>3. /\ running' = [running EXCEPT ![w] = NoJob] /\ queue' = queue /\ request' = request
      /\ running \in [Workers -> Job \cup {NoJob}]
  BY DEF End, PoolInv
<1>4. /\ running' \in [Workers -> Job \cup {NoJob}] /\ running'[w] = NoJob
      /\ \A v \in Workers \ {w} : running'[v] = running[v]
  BY <1>3
<1>5. /\ future' = [d \in Clients |-> future'[d]]
      /\ \A d \in Clients : ~IsOf(j, d) => future'[d] = future[d]
      /\ \A d \in Clients : IsOf(j, d) => future'[d] # "pending"
  BY <1>1, <1>2, JobsAreReal DEF PoolInv, IsOf
<1>6. \A d : HoldersIn(running', d) = HoldersIn(running, d) \ {w}
  BY <1>4 DEF HoldersIn, IsOf
<1>7. \A d : w \in HoldersIn(running, d) <=> IsOf(j, d)
  BY <1>1 DEF HoldersIn
<1>8. \A d : /\ PlacesIn(queue, d)' = PlacesIn(queue, d)
             /\ HoldersIn(running, d)' = HoldersIn(running', d)
  BY <1>3 DEF PlacesIn, HoldersIn
<1>9. ASSUME NEW d \in Clients
      PROVE  OneJob(d)'
  <2>1. OneJob(d)
    BY DEF PoolInv
  <2>2. CASE IsOf(j, d)
    <3>1. PlacesIn(queue, d) = {} /\ \E v \in Workers : HoldersIn(running, d) = {v}
      BY <1>7, <2>1, <2>2 DEF OneJob
    <3>2. HoldersIn(running', d) = {}
      BY <1>6, <1>7, <2>2, <3>1
    <3>3. ~Pending(d)'
      BY <1>5, <2>2 DEF Pending
    <3> QED
      BY <1>8, <3>1, <3>2, <3>3 DEF OneJob
  <2>3. CASE ~IsOf(j, d)
    <3>1. HoldersIn(running', d) = HoldersIn(running, d)
      BY <1>6, <1>7, <2>3
    <3>2. Pending(d)' <=> Pending(d)
      BY <1>3, <1>5, <2>3 DEF Pending, Waits
    <3>3. /\ PlacesIn(queue, d)' = PlacesIn(queue, d)
          /\ HoldersIn(running, d)' = HoldersIn(running, d)
          /\ DOMAIN queue' = DOMAIN queue
      BY <1>3, <1>8, <3>1
    <3> QED
      BY <2>1, <3>2, <3>3 DEF OneJob
  <2> QED
    BY <2>2, <2>3
<1>10. \A i : Apt(i)' <=> Apt(i)
  BY <1>3 DEF Apt, At
<1>11. (\A k \in DOMAIN queue : Apt(queue[k]))'
  BY <1>3, <1>10 DEF PoolInv
<1>12. (\A v \in Workers : running[v] # NoJob => Apt(running[v]))'
  BY <1>4, <1>10 DEF PoolInv
<1> QED
  BY <1>3, <1>4, <1>5, <1>9, <1>11, <1>12 DEF PoolInv

(* A client that asks Laya has no job, and leaves the pool as it is.       *)
LEMMA PoolAdvised ==
    ASSUME PoolInv, EvidenceInv', NEW c \in Clients, Advise(c)
    PROVE  PoolInv'
<1>1. /\ queue' = queue /\ running' = running /\ future' = future
      /\ request[c].at = "laya" /\ request'[c].at = "idle"
      /\ \A d \in Clients \ {c} : request'[d] = request[d]
  <2>1. PICK a : request' = [request EXCEPT ![c].at = "idle", ![c].a = a]
    BY DEF Advise
  <2>2. request = [d \in Clients |-> request[d]]
        /\ request[c] \in [at : ModelNames \cup {"idle", "laya"}, case : Cases, a : Assessment]
    BY DEF PoolInv, EvidenceInv, EvidenceOf
  <2> QED
    BY <2>1, <2>2 DEF Advise, At
<1>2. \A d : /\ PlacesIn(queue, d)' = PlacesIn(queue, d)
             /\ HoldersIn(running, d)' = HoldersIn(running, d)
  BY <1>1 DEF PlacesIn, HoldersIn
<1>3. PlacesIn(queue, c) = {} /\ HoldersIn(running, c) = {}
  BY <1>1 DEF PoolInv, OneJob, Pending, Waits, ModelNames
<1>4. OneJob(c)'
  BY <1>1, <1>2, <1>3 DEF OneJob, Pending, Waits, ModelNames
<1>5. ASSUME NEW d \in Clients, d # c PROVE OneJob(d)'
  BY <1>1, <1>2, <1>5, OthersKeepTheirJob
<1>6. ASSUME NEW i \in Job, Apt(i), ~IsOf(i, c)
      PROVE  Apt(i)'
  BY <1>1, <1>6, JobsAreReal DEF Apt, At, IsOf
<1>7. ASSUME NEW k \in DOMAIN queue
      PROVE  queue[k] \in Job /\ Apt(queue[k]) /\ ~IsOf(queue[k], c)
  BY <1>3, ElementOfSeq, LenProperties DEF PoolInv, PlacesIn
<1>8. ASSUME NEW v \in Workers, running[v] # NoJob
      PROVE  running[v] \in Job /\ Apt(running[v]) /\ ~IsOf(running[v], c)
  BY <1>3, <1>8 DEF PoolInv, HoldersIn
<1>9. (\A k \in DOMAIN queue : Apt(queue[k]))'
  BY <1>1, <1>6, <1>7
<1>10. (\A v \in Workers : running[v] # NoJob => Apt(running[v]))'
  BY <1>1, <1>6, <1>8
<1> QED
  BY <1>1, <1>4, <1>5, <1>9, <1>10 DEF PoolInv

(* Every step of clients and workers keeps the jobs in order.              *)
LEMMA PoolStep ==
    ASSUME PoolInv, [Next]_vars
    PROVE  PoolInv'
<1>1. EvidenceInv'
  BY EvidenceStep DEF PoolInv
<1>2. ASSUME NEW c \in Clients, Begin(c) \/ Receive(c) \/ TimeOut(c) \/ Advise(c)
      PROVE  PoolInv'
  <2>1. CASE Begin(c)
    BY <1>1, <2>1, PoolBegin
  <2>2. CASE Receive(c)
    <3>1. Waits(c) /\ \E output : Receives(c, output)
      BY <2>2 DEF Receive
    <3> QED
      BY <1>1, <3>1, PoolReceives
  <2>3. CASE TimeOut(c)
    <3>1. Waits(c) /\ \E output : Receives(c, output)
      BY <2>3 DEF TimeOut
    <3> QED
      BY <1>1, <3>1, PoolReceives
  <2>4. CASE Advise(c)
    BY <1>1, <2>4, PoolAdvised
  <2> QED
    BY <1>2, <2>1, <2>2, <2>3, <2>4
<1>3. ASSUME NEW w \in Workers, Take(w) \/ End(w)
      PROVE  PoolInv'
  BY <1>1, <1>3, PoolTake, PoolEnd
<1>4. ASSUME SpeedChanges \/ UNCHANGED vars
      PROVE  PoolInv'
  <2>1. UNCHANGED <<request, future, queue, running>>
    BY <1>4 DEF SpeedChanges, vars
  <2>2. \A c \in Clients : OneJob(c)'
    BY <2>1 DEF PoolInv, OneJob, Pending, Waits, PlacesIn, HoldersIn
  <2>3. \A i : Apt(i)' <=> Apt(i)
    BY <2>1 DEF Apt, At
  <2> QED
    BY <1>1, <2>1, <2>2, <2>3 DEF PoolInv
<1> QED
  BY <1>2, <1>3, <1>4 DEF Next

(* An answer reaches the call it was computed for, for any number of       *)
(* threads and workers, whatever jobs were left behind (wrapper.py:12-50). *)
THEOREM EachCallHasItsJobHolds == Spec => []EachCallHasItsJob
<1>1. Init => PoolInv
  <2> SUFFICES ASSUME Init PROVE PoolInv
    OBVIOUS
  <2>1. EvidenceInv
    BY EvidenceInitially
  <2>2. /\ queue = <<>> /\ queue \in Seq(Job) /\ DOMAIN queue = {}
        /\ running = [w \in Workers |-> NoJob]
        /\ future = [c \in Clients |-> "none"]
    BY EmptySeq, LenProperties DEF Init
  <2>3. \A c \in Clients : OneJob(c)
    BY <2>2 DEF OneJob, Pending, PlacesIn, HoldersIn, IsOf
  <2> QED
    BY <2>1, <2>2, <2>3 DEF PoolInv
<1>2. PoolInv /\ [Next]_vars => PoolInv'
  BY PoolStep
<1>3. PoolInv => EachCallHasItsJob
  <2> SUFFICES ASSUME PoolInv PROVE EachCallHasItsJob
    OBVIOUS
  <2>1. ASSUME NEW c \in Clients
        PROVE  /\ request[c].at \in ModelNames \cup {"idle", "laya"}
               /\ request[c].case \in Cases /\ request[c].a \in Assessment
               /\ Jobs(c) = Bit(Waits(c) /\ future[c] = "pending")
    <3>1. Jobs(c) = Cardinality(PlacesIn(queue, c)) + Cardinality(HoldersIn(running, c))
      BY DEF Jobs, PlacesIn, HoldersIn
    <3>2. Cardinality({}) = 0 /\ \A x : Cardinality({x}) = 1
      BY FS_EmptySet, FS_Singleton
    <3>3. Jobs(c) = Bit(Pending(c))
      <4>1. CASE Pending(c)
        <5>1. Cardinality(PlacesIn(queue, c)) + Cardinality(HoldersIn(running, c)) = 1
          <6>1. \/ Cardinality(PlacesIn(queue, c)) = 1 /\ Cardinality(HoldersIn(running, c)) = 0
                \/ Cardinality(PlacesIn(queue, c)) = 0 /\ Cardinality(HoldersIn(running, c)) = 1
            BY <3>2, <4>1, Zenon DEF PoolInv, OneJob
          <6> QED
            BY <6>1
        <5> QED
          BY <3>1, <4>1, <5>1 DEF Bit
      <4>2. CASE ~Pending(c)
        <5>1. Cardinality(PlacesIn(queue, c)) + Cardinality(HoldersIn(running, c)) = 0
          <6>1. Cardinality(PlacesIn(queue, c)) = 0 /\ Cardinality(HoldersIn(running, c)) = 0
            BY <3>2, <4>2, Zenon DEF PoolInv, OneJob
          <6> QED
            BY <6>1
        <5> QED
          BY <3>1, <4>2, <5>1 DEF Bit
      <4> QED
        BY <4>1, <4>2
    <3> QED
      BY <3>3 DEF PoolInv, EvidenceInv, EvidenceOf, Pending
  <2>2. ASSUME NEW j \in Range(queue) \cup Range(running), j # NoJob
        PROVE  j \in Job /\ (j.live => At(j.client, j.model))
    <3>1. CASE j \in Range(queue)
      <4>1. PICK k \in DOMAIN queue : j = queue[k]
        BY <3>1 DEF Range
      <4> QED
        BY <4>1, ElementOfSeq, LenProperties DEF PoolInv, Apt
    <3>2. CASE j \in Range(running)
      <4>1. PICK w \in Workers : j = running[w]
        BY <3>2 DEF Range, PoolInv
      <4> QED
        BY <2>2, <4>1 DEF PoolInv, Apt
    <3> QED
      BY <3>1, <3>2
  <2> QED
    BY <2>1, <2>2 DEF EachCallHasItsJob
<1> QED
  BY <1>1, <1>2, <1>3, PTL DEF Spec
=============================================================================
