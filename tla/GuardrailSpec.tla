--------------------------- MODULE GuardrailSpec ---------------------------
(***************************************************************************)
(* One call of the policy: a context and the free units are given, decide()*)
(* answers.  The properties compare the answer with what decide() answers  *)
(* to neighbouring questions (another advice, another position, weaker     *)
(* evidence), which is what a table of unit tests hardly reaches.          *)
(***************************************************************************)
EXTENDS Guardrail, FiniteSets

CONSTANTS
    Contexts,  \* the decision contexts put to the policy
    Advice     \* the Laya answers that may replace the one in a context

ASSUME ContextAssumption ==
    /\ Contexts \subseteq DecisionContext
    /\ \A l \in Advice : \A c \in Contexts :
          [c EXCEPT !.a.laya = l] \in DecisionContext

VARIABLES
    ctx,     \* the question
    free,    \* units available in the pool
    decided  \* the answer, <<>> before decide() returns

policyVars == <<ctx, free, decided>>

PolicyInit == /\ ctx \in Contexts
              /\ free \in SUBSET Units
              /\ decided = <<>>

DecideOnce == /\ decided = <<>>
              /\ decided' = <<Decide(ctx, free)>>
              /\ UNCHANGED <<ctx, free>>

PolicySpec == PolicyInit /\ [][DecideOnce]_policyVars

Answered == decided # <<>>
Answer   == decided[1]

-----------------------------------------------------------------------------
(* The record decide() returns is one the rest of the system can store. *)
GuardrailTypeOK ==
    /\ ctx \in Contexts
    /\ free \subseteq Units
    /\ Answered => /\ Answer.state \in DecisionStates
                   /\ Answer.priority \in Priorities
                   /\ Answer.source \in DecisionSources
                   /\ Answer.recommended \in Seq(ResourceTypes)
                   /\ \/ Answer.units = <<>>
                      \/ \E u \in free : Answer.units = <<u>>

(* Laya proposes, policy decides (Invariants 9 and 10): whatever Laya had  *)
(* answered, or had it not answered at all, the priority is the same.      *)
AdviceNeverMovesPriority ==
    Answered => \A l \in Advice :
        Decide([ctx EXCEPT !.a.laya = l], free).priority = Answer.priority

(* Invariant 5 as the code keeps it: a CRITICAL decision rests on two      *)
(* model signals over clean data, or was raised for an underserved zone.   *)
CriticalIsSupportedOrRaised ==
    (Answered /\ Answer.priority = CRITICAL) =>
        \/ SignalCount(ctx.a) >= 2 /\ ~DataQualityAnomaly(ctx.a)
        \/ /\ ctx.position = "EQUITY" /\ ctx.zone \in UnderservedZones
           /\ QualityCapped(ctx.a) = HIGH

(* A governance position orders the queue; it never changes who decides:   *)
(* the same case is routed to a human under every position or under none,  *)
(* and EQUITY differs from RESPONSE_TIME by at most one step up.           *)
PositionNeverLiftsAHold ==
    Answered => \A p \in Positions :
        LET other == Decide([ctx EXCEPT !.position = p], free)
        IN  /\ other.source = "HUMAN_REQUIRED" <=> Answer.source = "HUMAN_REQUIRED"
            /\ ctx.position = "RESPONSE_TIME" =>
                 other.priority - Answer.priority \in {0, Bit(p = "EQUITY")}

\* Assessments that say less than a: one reading of a replaced by its worst.
Degradations(a) ==
    {[a EXCEPT !.sev.ok = FALSE], [a EXCEPT !.sev.conf = 0],
     [a EXCEPT !.traffic.ok = FALSE], [a EXCEPT !.traffic.conf = 0],
     [a EXCEPT !.traffic.delta = 0], [a EXCEPT !.anomaly.failed = TRUE],
     [a EXCEPT !.anomaly.score = 100], [a EXCEPT !.anomaly.situational = FALSE],
     [a EXCEPT !.trust = 0]}

(* Losing evidence never sends a vehicle that full evidence would not have *)
(* sent, and the vehicle sent is then the same one.                        *)
LostEvidenceNeverDispatches ==
    Answered => \A b \in Degradations(ctx.a) :
        LET less == Decide([ctx EXCEPT !.a = b], free)
        IN  less.units # <<>> => less.units = Answer.units

(* An escalation for contention is never a false alarm and a dispatch is   *)
(* never a false success: a case that needs no human either gets a free    *)
(* unit of a wanted type, or is LOW, or escalates because there is none.   *)
ContentionIsHonest ==
    (Answered /\ Answer.source # "HUMAN_REQUIRED") =>
        LET served == {u \in free : \E k \in DOMAIN Answer.recommended :
                                        UnitType[u] = Answer.recommended[k]}
        IN  /\ Answer.state = "CONTENTION_ESCALATION" <=>
                  Answer.priority # LOW /\ served = {}
            /\ Answer.units # <<>> <=> Answer.priority # LOW /\ served # {}
            /\ Answer.units # <<>> => Answer.units[1] \in served

(* ECO sends the greenest unit of the type it sends, the other positions a *)
(* unit of the incident's own zone whenever that type has one there.       *)
PickServesThePosition ==
    (Answered /\ Answer.units # <<>>) =>
        LET u     == Answer.units[1]
            rival == {v \in free : UnitType[v] = UnitType[u]}
        IN  IF ctx.position = "ECO"
            THEN \A v \in rival : EcoScore[v] <= EcoScore[u]
            ELSE (\E v \in rival : UnitZone[v] = ctx.zone) => UnitZone[u] = ctx.zone

(* Invariant 5 as docs/jevcity/GUARDRAIL.md:16 states it, for the answers  *)
(* no human looks at: "CRITICAL needs >= 2 independent model signals".     *)
CriticalNeedsTwoSignals ==
    (Answered /\ Answer.priority = CRITICAL /\ Answer.source # "HUMAN_REQUIRED")
        => SignalCount(ctx.a) >= 2

=============================================================================
