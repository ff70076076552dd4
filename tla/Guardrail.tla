----------------------------- MODULE Guardrail -----------------------------
(***************************************************************************)
(* The deterministic decision policy of JevCity: decision_engine/guardrail *)
(* (policy.py, confidence.py, allocate.py) and policy_position.py.         *)
(*                                                                         *)
(* A decision is a function of a context (what validation, the three ML    *)
(* models, the stream trust and the Laya advisor say of one incident), of  *)
(* the governance position, and of the units that are free.  Every number  *)
(* of the code lies in 0..1 and is compared with a two-digit threshold, so *)
(* it is an integer percentage here.                                       *)
(***************************************************************************)
EXTENDS Integers, Sequences

CONSTANTS
    Units,     \* the fleet: unit ids in the order the code sorts them
    UnitType,  \* the resource type of a unit
    UnitZone,  \* the zone a unit is stationed in
    EcoScore   \* a unit's eco score, as a percentage

IncidentTypes == {"ACCIDENT", "FIRE", "FLOOD", "TRAFFIC_SPIKE"}
ResourceTypes == {"AMBULANCE", "POLICE_UNIT", "FIRE_TRUCK",
                  "FLOOD_RESPONSE_UNIT", "TRAFFIC_MANAGEMENT_UNIT"}
Zones         == {"NORTH", "SOUTH", "EAST", "WEST", "CENTRAL"}
Positions     == {"RESPONSE_TIME", "EQUITY", "ECO"}
NoResource    == "NONE"

ASSUME FleetAssumption ==
    /\ Units \subseteq Nat
    /\ UnitType \in [Units -> ResourceTypes]
    /\ UnitZone \in [Units -> Zones]
    /\ EcoScore \in [Units -> 0..100]

LOW      == 0
MEDIUM   == 1
HIGH     == 2
CRITICAL == 3
Priorities == LOW..CRITICAL

OverallGate     == 60   \* OVERALL_GATE
AnswerGate      == 50   \* LAYA_ANSWER_CONFIDENCE_GATE
TrustGate       == 70   \* TRUST_GATE
TrafficCritical == 60   \* CRITICAL_TRAFFIC_THRESHOLD
AnomalyAt       == 50   \* the score from which the detector flags an anomaly

UnderservedZones == {"NORTH", "WEST"}
Percent == 0..100

(***************************************************************************)
(* What the engine gathers before it calls decide().                       *)
(***************************************************************************)
Assessment ==
    [sev     : [ok : BOOLEAN, pred : Priorities, conf : Percent],
     traffic : [ok : BOOLEAN, delta : Percent, conf : Percent],
     anomaly : [failed : BOOLEAN, score : Percent, situational : BOOLEAN],
     laya    : [ok : BOOLEAN, priority : Priorities, review : BOOLEAN,
                conf : Percent, resource : ResourceTypes \cup {NoResource}],
     trust   : Percent]

DecisionContext ==
    [hard : BOOLEAN, type : IncidentTypes, zone : Zones, a : Assessment,
     position : Positions]

(***************************************************************************)
(* Priority: the models propose, the policy caps, the governance position  *)
(* raises, the stream trust lowers.  Laya appears in none of these.        *)
(***************************************************************************)
Bit(b) == IF b THEN 1 ELSE 0

SignalCount(a) == Bit(a.sev.pred = CRITICAL)
                + Bit(a.traffic.delta >= TrafficCritical)
                + Bit(a.anomaly.situational)

DataQualityAnomaly(a) == a.anomaly.failed \/ a.anomaly.score >= AnomalyAt

CapAtHigh(p) == IF p = CRITICAL THEN HIGH ELSE p

\* Broken: the severity model alone decides.
SignalCappedNever(a) == a.sev.pred

SignalCapped(a) == IF SignalCount(a) < 2 THEN CapAtHigh(a.sev.pred)
                                         ELSE a.sev.pred

QualityCapped(a) == IF DataQualityAnomaly(a) THEN CapAtHigh(SignalCapped(a))
                                             ELSE SignalCapped(a)

StepUp(p)   == IF p = CRITICAL THEN CRITICAL ELSE p + 1
\* Broken: the lowest priority goes round to the highest.
StepDownWrapped(p) == (p - 1) % 4
StepDown(p) == IF p = LOW THEN LOW ELSE p - 1

\* Broken: a raise under every position that is not the default.
EquityRaisedUnlessDefault(c) ==
    IF c.position # "RESPONSE_TIME" /\ c.zone \in UnderservedZones
    THEN StepUp(QualityCapped(c.a)) ELSE QualityCapped(c.a)

EquityRaised(c) ==
    IF c.position = "EQUITY" /\ c.zone \in UnderservedZones
    THEN StepUp(QualityCapped(c.a)) ELSE QualityCapped(c.a)

\* Broken: Laya's proposal is taken over.
FinalPriorityAsProposed(c) == IF c.a.laya.ok THEN c.a.laya.priority ELSE EquityRaised(c)

FinalPriority(c) == IF c.a.trust < TrustGate THEN StepDown(EquityRaised(c))
                                             ELSE EquityRaised(c)

(***************************************************************************)
(* Routing: who has to look at the case before anything moves.             *)
(***************************************************************************)
ModelFailed(a) == ~a.sev.ok \/ ~a.traffic.ok \/ a.anomaly.failed

FailurePriority(a) == IF a.sev.ok THEN CapAtHigh(a.sev.pred) ELSE LOW

\* overall_confidence is the minimum of the three, compared with the gate.
OverallBelowGate(a) == \/ a.sev.conf < OverallGate
                       \/ a.traffic.conf < OverallGate
                       \/ 100 - a.anomaly.score < OverallGate

AdvisorHolds(l) == l.ok /\ (l.review \/ l.conf < AnswerGate)

MustHold(a) == AdvisorHolds(a.laya) \/ DataQualityAnomaly(a) \/ OverallBelowGate(a)

(***************************************************************************)
(* Allocation: at most one unit, of the first wanted type that has one.    *)
(***************************************************************************)
FallbackResource(type) ==
    CASE type = "ACCIDENT"      -> <<"AMBULANCE", "POLICE_UNIT">>
      [] type = "FIRE"          -> <<"FIRE_TRUCK", "AMBULANCE">>
      [] type = "FLOOD"         -> <<"FLOOD_RESPONSE_UNIT", "POLICE_UNIT">>
      [] type = "TRAFFIC_SPIKE" -> <<"TRAFFIC_MANAGEMENT_UNIT", "POLICE_UNIT">>

\* Broken: an answer without a resource is taken for one.
RecommendedUnchecked(l) == IF l.ok THEN <<l.resource>> ELSE <<>>

Recommended(l) == IF l.ok /\ l.resource # NoResource THEN <<l.resource>> ELSE <<>>

Wanted(c) == IF Recommended(c.a.laya) = <<>> THEN FallbackResource(c.type)
                                             ELSE Recommended(c.a.laya)

OfType(free, t) == {u \in free : UnitType[u] = t}

Least(S) == CHOOSE u \in S : \A v \in S : u <= v

Greenest(S) == {u \in S : \A v \in S : EcoScore[v] <= EcoScore[u]}

\* Broken: the zone is not looked at.
LocalAnywhere(S, zone) == S

Local(S, zone) == IF \E u \in S : UnitZone[u] = zone
                  THEN {u \in S : UnitZone[u] = zone} ELSE S

Pick(c, candidates) == IF c.position = "ECO" THEN Least(Greenest(candidates))
                                             ELSE Least(Local(candidates, c.zone))

\* The wanted type that is served: the first with a free unit (0: none).
ServedIndex(c, free) ==
    LET w    == Wanted(c)
        some == {k \in DOMAIN w : OfType(free, w[k]) # {}}
    IN  IF some = {} THEN 0 ELSE Least(some)

Allocated(c, free) ==
    IF FinalPriority(c) = LOW \/ ServedIndex(c, free) = 0 THEN <<>>
    ELSE <<Pick(c, OfType(free, Wanted(c)[ServedIndex(c, free)]))>>

\* Broken: LOW cases are told they lost a unit.
ContentionForAll(c, free) == ServedIndex(c, free) = 0

Contention(c, free) == FinalPriority(c) # LOW /\ ServedIndex(c, free) = 0

(***************************************************************************)
(* decide(): the precedence of the policy, first match wins.               *)
(***************************************************************************)
DecisionStates == {"REJECTED_INPUT", "MODEL_DEGRADED", "HOLD_FOR_HUMAN",
                   "AUTO_APPROVED", "CONTENTION_ESCALATION"}
DecisionSources == {"HUMAN_REQUIRED", "FALLBACK_RULE", "LAYA_PROPOSED",
                    "POLICY_FINALIZED"}

Outcome(c, state, priority) ==
    [state |-> state, priority |-> priority, source |-> "HUMAN_REQUIRED",
     recommended |-> Recommended(c.a.laya), units |-> <<>>]

AutomatedSource(c) ==
    CASE ~c.a.laya.ok                          -> "FALLBACK_RULE"
      [] c.a.laya.ok /\ c.a.laya.priority = FinalPriority(c)
                                               -> "LAYA_PROPOSED"
      [] OTHER                                 -> "POLICY_FINALIZED"

AutomatedState(c, free) ==
    IF Contention(c, free) THEN "CONTENTION_ESCALATION"
    ELSE IF c.a.laya.ok THEN "AUTO_APPROVED" ELSE "MODEL_DEGRADED"

Automated(c, free) ==
    [state |-> AutomatedState(c, free), priority |-> FinalPriority(c),
     source |-> AutomatedSource(c), recommended |-> Wanted(c),
     units |-> Allocated(c, free)]

Decide(c, free) ==
    IF c.hard THEN Outcome(c, "REJECTED_INPUT", LOW)
    ELSE IF ModelFailed(c.a)
         THEN Outcome(c, "MODEL_DEGRADED", FailurePriority(c.a))
    ELSE IF MustHold(c.a)
         THEN Outcome(c, "HOLD_FOR_HUMAN", FinalPriority(c))
    ELSE Automated(c, free)

=============================================================================
