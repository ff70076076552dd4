------------------------- MODULE GuardrailTheorems --------------------------
(***************************************************************************)
(* The algebra of the policy, for every context, fleet and set of free     *)
(* units: what each correction of a priority, the precedence of decide()   *)
(* and the allocation of a unit guarantee.                                 *)
(***************************************************************************)
EXTENDS Guardrail, WellFoundedInduction, TLAPS

-----------------------------------------------------------------------------
(* Priorities *)

(* Each correction of a priority yields a priority. *)
LEMMA PriorityAlgebra ==
    ASSUME NEW p \in Priorities
    PROVE  /\ CapAtHigh(p) \in Priorities /\ CapAtHigh(p) # CRITICAL
           /\ StepUp(p) \in Priorities /\ StepDown(p) \in Priorities
           /\ StepDown(p) # CRITICAL
           /\ CapAtHigh(p) <= p /\ p <= StepUp(p) /\ StepUp(p) <= p + 1
           /\ StepDown(p) <= p
BY DEF CapAtHigh, StepUp, StepDown, Priorities, LOW, MEDIUM, HIGH, CRITICAL

(* The quality cap: a CRITICAL that passes it has two signals and clean data. *)
LEMMA CapsBound ==
    ASSUME NEW a \in Assessment
    PROVE  /\ QualityCapped(a) \in Priorities
           /\ SignalCapped(a) \in Priorities
           /\ QualityCapped(a) = CRITICAL =>
                SignalCount(a) >= 2 /\ ~DataQualityAnomaly(a)
<1>1. a.sev.pred \in Priorities
  BY DEF Assessment
<1>2. SignalCount(a) \in Int
  BY DEF SignalCount, Bit
<1>3. /\ SignalCapped(a) \in Priorities
      /\ SignalCapped(a) = CRITICAL => SignalCount(a) >= 2
  BY <1>1, <1>2, PriorityAlgebra DEF SignalCapped
<1> QED
  BY <1>3, PriorityAlgebra DEF QualityCapped

(* FinalPriority is a priority; only the governance position can raise it. *)
LEMMA FinalPriorityBound ==
    ASSUME NEW c \in DecisionContext
    PROVE  /\ EquityRaised(c) \in Priorities
           /\ FinalPriority(c) \in Priorities
           /\ FinalPriority(c) = CRITICAL =>
                /\ c.a.trust >= TrustGate
                /\ EquityRaised(c) = CRITICAL
<1>1. c.a \in Assessment /\ c.a.trust \in Int
  BY DEF DecisionContext, Assessment, Percent
<1>2. QualityCapped(c.a) \in Priorities
  BY <1>1, CapsBound
<1>3. EquityRaised(c) \in Priorities
  BY <1>2, PriorityAlgebra DEF EquityRaised
<1> QED
  BY <1>1, <1>3, PriorityAlgebra DEF FinalPriority, TrustGate

-----------------------------------------------------------------------------
(* What depends on what *)

(* Replacing Laya's answer leaves everything the priority is made of alone. *)
LEMMA AdviceIsApart ==
    ASSUME NEW c \in DecisionContext, NEW l,
           [c EXCEPT !.a.laya = l] \in DecisionContext
    PROVE  LET d == [c EXCEPT !.a.laya = l]
           IN  /\ d.hard = c.hard
               /\ ModelFailed(d.a) = ModelFailed(c.a)
               /\ FailurePriority(d.a) = FailurePriority(c.a)
               /\ FinalPriority(d) = FinalPriority(c)
<1> DEFINE d == [c EXCEPT !.a.laya = l]
<1>1. /\ d.hard = c.hard /\ d.position = c.position /\ d.zone = c.zone
      /\ d.a = [c.a EXCEPT !.laya = l]
  BY DEF DecisionContext
<1>2. /\ d.a.sev = c.a.sev /\ d.a.traffic = c.a.traffic
      /\ d.a.anomaly = c.a.anomaly /\ d.a.trust = c.a.trust
  BY <1>1 DEF DecisionContext, Assessment
<1>3. QualityCapped(d.a) = QualityCapped(c.a)
  BY <1>2 DEF QualityCapped, SignalCapped, SignalCount, DataQualityAnomaly
<1>4. FinalPriority(d) = FinalPriority(c)
  BY <1>1, <1>2, <1>3 DEF FinalPriority, EquityRaised
<1> QED
  BY <1>1, <1>2, <1>4 DEF ModelFailed, FailurePriority

(* The priority decide() answers, by cases of its precedence. *)
LEMMA DecidedPriority ==
    ASSUME NEW c, NEW S
    PROVE  Decide(c, S).priority = IF c.hard THEN LOW
                                   ELSE IF ModelFailed(c.a) THEN FailurePriority(c.a)
                                   ELSE FinalPriority(c)
BY DEF Decide, Outcome, Automated

(* A case is a human's exactly if it is rejected, blind or doubtful. *)
LEMMA DecidedByHuman ==
    ASSUME NEW c, NEW S
    PROVE  Decide(c, S).source = "HUMAN_REQUIRED"
             <=> c.hard \/ ModelFailed(c.a) \/ MustHold(c.a)
<1>1. AutomatedSource(c) # "HUMAN_REQUIRED"
  BY DEF AutomatedSource
<1> QED
  BY <1>1 DEF Decide, Outcome, Automated

(* Nothing moves for a case that is a human's. *)
LEMMA DecidedUnits ==
    ASSUME NEW c, NEW S
    PROVE  Decide(c, S).units = IF c.hard \/ ModelFailed(c.a) \/ MustHold(c.a)
                                THEN <<>> ELSE Allocated(c, S)
BY DEF Decide, Outcome, Automated

-----------------------------------------------------------------------------
(* One promise after the other, of Decide itself *)

(* Whatever Laya answers, decide() gives the case the same priority. *)
LEMMA AdviceMovesNothing ==
    ASSUME NEW c \in DecisionContext, NEW S, NEW l,
           [c EXCEPT !.a.laya = l] \in DecisionContext
    PROVE  Decide([c EXCEPT !.a.laya = l], S).priority = Decide(c, S).priority
<1> DEFINE d == [c EXCEPT !.a.laya = l]
<1>1. /\ d.hard = c.hard
      /\ ModelFailed(d.a) = ModelFailed(c.a)
      /\ FailurePriority(d.a) = FailurePriority(c.a)
      /\ FinalPriority(d) = FinalPriority(c)
  BY AdviceIsApart
<1> HIDE DEF d
<1>2. Decide(d, S).priority = Decide(c, S).priority
  BY <1>1, DecidedPriority
<1> QED
  BY <1>2 DEF d

(* A CRITICAL answer has its two signals on clean data, or was HIGH and    *)
(* raised for its zone.                                                    *)
LEMMA CriticalHasGrounds ==
    ASSUME NEW c \in DecisionContext, NEW S, Decide(c, S).priority = CRITICAL
    PROVE  \/ SignalCount(c.a) >= 2 /\ ~DataQualityAnomaly(c.a)
           \/ /\ c.position = "EQUITY" /\ c.zone \in UnderservedZones
              /\ QualityCapped(c.a) = HIGH
<1>1. c.a \in Assessment /\ c.a.sev.pred \in Priorities
  BY DEF DecisionContext, Assessment
<1>2. FailurePriority(c.a) # CRITICAL
  BY <1>1, PriorityAlgebra DEF FailurePriority, LOW, CRITICAL
<1>3. FinalPriority(c) = CRITICAL
  BY <1>2, DecidedPriority DEF LOW, CRITICAL
<1>4. EquityRaised(c) = CRITICAL
  BY <1>3, FinalPriorityBound
<1>5. CASE QualityCapped(c.a) = CRITICAL
  BY <1>1, <1>5, CapsBound
<1>6. CASE QualityCapped(c.a) # CRITICAL
  <2>1. /\ c.position = "EQUITY" /\ c.zone \in UnderservedZones
        /\ StepUp(QualityCapped(c.a)) = CRITICAL
    BY <1>4, <1>6 DEF EquityRaised
  <2>2. QualityCapped(c.a) \in Priorities
    BY <1>1, CapsBound
  <2> QED
    BY <2>1, <2>2, <1>6 DEF StepUp, Priorities, LOW, HIGH, CRITICAL
<1> QED
  BY <1>5, <1>6

(* A position changes neither who decides nor, EQUITY's step apart, the    *)
(* priority of RESPONSE_TIME.                                              *)
LEMMA PositionIsApart ==
    ASSUME NEW c \in DecisionContext, NEW S, NEW p \in Positions
    PROVE  LET d == [c EXCEPT !.position = p]
           IN  /\ Decide(d, S).source = "HUMAN_REQUIRED"
                     <=> Decide(c, S).source = "HUMAN_REQUIRED"
               /\ c.position = "RESPONSE_TIME" =>
                    Decide(d, S).priority - Decide(c, S).priority
                        \in {0, Bit(p = "EQUITY")}
<1> DEFINE d == [c EXCEPT !.position = p]
<1>1. /\ d.hard = c.hard /\ d.a = c.a /\ d.zone = c.zone /\ d.position = p
      /\ c.a \in Assessment /\ c.a.sev.pred \in Priorities
  BY DEF DecisionContext, Assessment
<1>2. Decide(d, S).source = "HUMAN_REQUIRED" <=> Decide(c, S).source = "HUMAN_REQUIRED"
  BY <1>1, DecidedByHuman
<1>3. QualityCapped(c.a) \in Priorities
  BY <1>1, CapsBound
<1>4. ASSUME c.position = "RESPONSE_TIME"
      PROVE  /\ FinalPriority(d) - FinalPriority(c) \in {0, Bit(p = "EQUITY")}
             /\ FinalPriority(c) \in Int
  BY <1>1, <1>3, <1>4
     DEF FinalPriority, EquityRaised, StepUp, StepDown, Bit, Priorities, LOW, CRITICAL
<1>5. FailurePriority(c.a) \in Int
  BY <1>1, PriorityAlgebra DEF FailurePriority, Priorities, LOW
<1>6. ASSUME c.position = "RESPONSE_TIME"
      PROVE  Decide(d, S).priority - Decide(c, S).priority \in {0, Bit(p = "EQUITY")}
  <2> HIDE DEF d
  <2>1. CASE c.hard
    <3>1. Decide(d, S).priority = 0 /\ Decide(c, S).priority = 0
      BY <1>1, <2>1, DecidedPriority DEF LOW
    <3> QED
      BY <3>1
  <2>2. CASE ~c.hard /\ ModelFailed(c.a)
    BY <1>1, <1>5, <2>2, DecidedPriority
  <2>3. CASE ~c.hard /\ ~ModelFailed(c.a)
    BY <1>1, <1>4, <1>6, <2>3, DecidedPriority
  <2> QED
    BY <2>1, <2>2, <2>3
<1> QED
  BY <1>2, <1>6

(* Fewer signals or less trust never turn a LOW case into one that moves.  *)
LEMMA WeakerIsNotHigher ==
    ASSUME NEW c \in DecisionContext, NEW d \in DecisionContext,
           d.a.sev.pred = c.a.sev.pred,
           SignalCount(d.a) <= SignalCount(c.a),
           DataQualityAnomaly(d.a) <=> DataQualityAnomaly(c.a),
           d.a.trust <= c.a.trust,
           d.position = c.position, d.zone = c.zone,
           FinalPriority(d) # LOW
    PROVE  FinalPriority(c) # LOW
<1>1. /\ c.a.sev.pred \in Priorities
      /\ c.a.trust \in Int /\ d.a.trust \in Int
      /\ SignalCount(c.a) \in Int /\ SignalCount(d.a) \in Int
  BY DEF DecisionContext, Assessment, Percent, SignalCount, Bit
<1>2. /\ QualityCapped(d.a) <= QualityCapped(c.a)
      /\ QualityCapped(c.a) \in Priorities /\ QualityCapped(d.a) \in Priorities
  BY <1>1 DEF QualityCapped, SignalCapped, CapAtHigh, Priorities, LOW, HIGH, CRITICAL
<1>3. /\ EquityRaised(d) <= EquityRaised(c)
      /\ EquityRaised(c) \in Priorities /\ EquityRaised(d) \in Priorities
  BY <1>2 DEF EquityRaised, StepUp, Priorities, LOW, CRITICAL
<1> QED
  BY <1>1, <1>3 DEF FinalPriority, StepDown, TrustGate, Priorities, LOW, CRITICAL

-----------------------------------------------------------------------------
(* Units *)

(* A non-empty set of numbers has a least one, and Least names it. *)
LEMMA LeastIsLeast ==
    ASSUME NEW T, T \subseteq Nat, T # {}
    PROVE  Least(T) \in T /\ \A v \in T : Least(T) <= v
<1>1. PICK x \in T : \A y \in T : ~(<<y, x>> \in OpToRel(<, Nat))
  BY WFMin, NatLessThanWellFounded
<1>2. OpToRel(<, Nat) = {ss \in Nat \X Nat : ss[1] < ss[2]}
  BY Zenon DEF OpToRel
<1>3. ASSUME NEW y \in T
      PROVE  x <= y
  <2>1. <<y, x>> \notin {ss \in Nat \X Nat : ss[1] < ss[2]}
    BY <1>1, <1>2, Zenon
  <2>2. ~(y < x)
    BY <2>1
  <2> QED
    BY <2>2
<1> QED
  BY <1>3 DEF Least

(* Some unit of a non-empty set has the highest eco score. *)
LEMMA SomeGreenest ==
    ASSUME NEW T, T \subseteq Units, T # {}
    PROVE  Greenest(T) # {} /\ Greenest(T) \subseteq T
<1> DEFINE gaps == {100 - EcoScore[u] : u \in T}
<1>1. \A u \in T : EcoScore[u] \in 0..100
  BY FleetAssumption
<1>2. gaps \subseteq Nat /\ gaps # {}
  BY <1>1
<1>3. Least(gaps) \in gaps /\ \A g \in gaps : Least(gaps) <= g
  <2> HIDE DEF gaps
  <2> QED
    BY <1>2, LeastIsLeast
<1>4. PICK u \in T : Least(gaps) = 100 - EcoScore[u]
  BY <1>3
<1>5. ASSUME NEW v \in T
      PROVE  EcoScore[v] <= EcoScore[u]
  <2>1. 100 - EcoScore[u] <= 100 - EcoScore[v]
    BY <1>3, <1>4
  <2>2. EcoScore[u] \in Int /\ EcoScore[v] \in Int
    BY <1>1
  <2>3. \A m, n \in Int : 100 - m <= 100 - n => n <= m
    OBVIOUS
  <2> QED
    BY <2>1, <2>2, <2>3
<1> QED
  BY <1>5 DEF Greenest

(* The unit picked is a candidate, and the one the position asks for. *)
LEMMA PickIsACandidate ==
    ASSUME NEW c, NEW T, T \subseteq Units, T # {}
    PROVE  /\ Pick(c, T) \in T
           /\ c.position = "ECO" =>
                \A v \in T : EcoScore[v] <= EcoScore[Pick(c, T)]
           /\ c.position # "ECO" =>
                ((\E v \in T : UnitZone[v] = c.zone) => UnitZone[Pick(c, T)] = c.zone)
<1>1. T \subseteq Nat
  BY FleetAssumption
<1>2. CASE c.position = "ECO"
  <2>1. Greenest(T) # {} /\ Greenest(T) \subseteq T
    BY SomeGreenest
  <2>2. Pick(c, T) \in Greenest(T)
    BY <1>1, <1>2, <2>1, LeastIsLeast DEF Pick
  <2> QED
    BY <1>2, <2>1, <2>2 DEF Greenest
<1>3. CASE c.position # "ECO"
  <2>1. Local(T, c.zone) # {} /\ Local(T, c.zone) \subseteq T
    BY DEF Local
  <2>2. Pick(c, T) \in Local(T, c.zone)
    BY <1>1, <1>3, <2>1, LeastIsLeast DEF Pick
  <2> QED
    BY <1>3, <2>1, <2>2 DEF Local
<1> QED
  BY <1>2, <1>3

(* The wanted types are a non-empty list. *)
LEMMA WantedIsAList ==
    ASSUME NEW c \in DecisionContext
    PROVE  /\ Wanted(c) \in Seq(ResourceTypes)
           /\ DOMAIN Wanted(c) \subseteq Nat \ {0}
           /\ DOMAIN Wanted(c) # {}
<1>1. c.type \in IncidentTypes /\ c.a.laya.resource \in ResourceTypes \cup {NoResource}
  BY DEF DecisionContext, Assessment
<1>2. \E r \in ResourceTypes, t \in ResourceTypes :
          FallbackResource(c.type) = <<r, t>>
  BY <1>1 DEF FallbackResource, IncidentTypes, ResourceTypes
<1>3. \/ \E r \in ResourceTypes : Wanted(c) = <<r>>
      \/ \E r \in ResourceTypes, t \in ResourceTypes : Wanted(c) = <<r, t>>
  BY <1>1, <1>2 DEF Wanted, Recommended
<1>4. \A r \in ResourceTypes : <<r>> \in Seq(ResourceTypes) /\ DOMAIN <<r>> = 1..1
  OBVIOUS
<1>5. \A r \in ResourceTypes, t \in ResourceTypes :
          <<r, t>> \in Seq(ResourceTypes) /\ DOMAIN <<r, t>> = 1..2
  OBVIOUS
<1>6. Wanted(c) \in Seq(ResourceTypes) /\ DOMAIN Wanted(c) \in {1..1, 1..2}
  BY <1>3, <1>4, <1>5
<1> QED
  BY <1>6

(* ServedIndex is the place of a wanted type with a free unit, 0 without.  *)
LEMMA ServedIsServable ==
    ASSUME NEW c \in DecisionContext, NEW S, S \subseteq Units
    PROVE  /\ ServedIndex(c, S) = 0
                <=> \A k \in DOMAIN Wanted(c) : OfType(S, Wanted(c)[k]) = {}
           /\ ServedIndex(c, S) # 0 =>
                /\ ServedIndex(c, S) \in DOMAIN Wanted(c)
                /\ OfType(S, Wanted(c)[ServedIndex(c, S)]) # {}
<1> DEFINE some == {k \in DOMAIN Wanted(c) : OfType(S, Wanted(c)[k]) # {}}
<1>1. some \subseteq Nat \ {0}
  BY WantedIsAList
<1>2. some # {} => Least(some) \in some
  <2> HIDE DEF some
  <2> QED
    BY <1>1, LeastIsLeast
<1>3. ServedIndex(c, S) = IF some = {} THEN 0 ELSE Least(some)
  BY DEF ServedIndex
<1> QED
  BY <1>1, <1>2, <1>3

(* A dispatch takes one free unit of the served type, picked by position.  *)
LEMMA AllocatedIsPicked ==
    ASSUME NEW c \in DecisionContext, NEW S, S \subseteq Units
    PROVE  /\ Allocated(c, S) # <<>> <=> FinalPriority(c) # LOW /\ ServedIndex(c, S) # 0
           /\ Allocated(c, S) # <<>> =>
                LET type == Wanted(c)[ServedIndex(c, S)]
                    u    == Pick(c, OfType(S, type))
                IN  /\ Allocated(c, S) = <<u>>
                    /\ u \in S /\ UnitType[u] = type
                    /\ ServedIndex(c, S) \in DOMAIN Wanted(c)
<1> DEFINE type == Wanted(c)[ServedIndex(c, S)]
<1> DEFINE u    == Pick(c, OfType(S, type))
<1>1. Allocated(c, S) = IF FinalPriority(c) = LOW \/ ServedIndex(c, S) = 0
                        THEN <<>> ELSE <<u>>
  BY DEF Allocated
<1>2. <<u>> # <<>>
  OBVIOUS
<1>3. ASSUME ServedIndex(c, S) # 0
      PROVE  u \in S /\ UnitType[u] = type /\ ServedIndex(c, S) \in DOMAIN Wanted(c)
  <2>1. /\ ServedIndex(c, S) \in DOMAIN Wanted(c)
        /\ OfType(S, type) # {}
    BY <1>3, ServedIsServable
  <2>2. OfType(S, type) \subseteq S /\ OfType(S, type) \subseteq Units
    BY DEF OfType
  <2>3. u \in OfType(S, type)
    BY <2>1, <2>2, PickIsACandidate
  <2> QED
    BY <2>1, <2>3 DEF OfType
<1> QED
  BY <1>1, <1>2, <1>3

(* decide() answers one of its states, a priority and at most one unit.    *)
LEMMA DecidedRecord ==
    ASSUME NEW c \in DecisionContext, NEW S, S \subseteq Units
    PROVE  /\ Decide(c, S).state \in DecisionStates
           /\ Decide(c, S).priority \in Priorities
           /\ Decide(c, S).source \in DecisionSources
           /\ Decide(c, S).recommended \in Seq(ResourceTypes)
           /\ \/ Decide(c, S).units = <<>>
              \/ \E u \in S : Decide(c, S).units = <<u>>
<1>1. Decide(c, S).state \in DecisionStates /\ Decide(c, S).source \in DecisionSources
  <2>1. AutomatedSource(c) \in DecisionSources
    BY DEF AutomatedSource, DecisionSources
  <2>2. AutomatedState(c, S) \in DecisionStates
    BY DEF AutomatedState, DecisionStates
  <2> QED
    BY <2>1, <2>2 DEF Decide, Outcome, Automated, DecisionStates, DecisionSources
<1>2. Decide(c, S).priority \in Priorities
  <2>1. c.a.sev.pred \in Priorities /\ LOW \in Priorities
    BY DEF DecisionContext, Assessment, Priorities, LOW, CRITICAL
  <2>2. FailurePriority(c.a) \in Priorities
    BY <2>1, PriorityAlgebra DEF FailurePriority
  <2> QED
    BY <2>1, <2>2, FinalPriorityBound, DecidedPriority
<1>3. Decide(c, S).recommended \in Seq(ResourceTypes)
  <2>1. Wanted(c) \in Seq(ResourceTypes)
    BY WantedIsAList
  <2>2. c.a.laya.resource \in ResourceTypes \cup {NoResource}
    BY DEF DecisionContext, Assessment
  <2>3. Recommended(c.a.laya) \in Seq(ResourceTypes)
    BY <2>2 DEF Recommended
  <2> QED
    BY <2>1, <2>3 DEF Decide, Outcome, Automated
<1>4. Decide(c, S).units = <<>> \/ \E u \in S : Decide(c, S).units = <<u>>
  BY DecidedUnits, AllocatedIsPicked
<1> QED
  BY <1>1, <1>2, <1>3, <1>4
=============================================================================
