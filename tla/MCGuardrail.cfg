SPECIFICATION PolicySpec
CONSTANTS
    Units    <- MCUnits
    UnitType <- MCUnitType
    UnitZone <- MCUnitZone
    EcoScore <- MCEcoScore
    Contexts <- MCContexts
    Advice   <- MCAdvice
INVARIANTS
    GuardrailTypeOK
    AdviceNeverMovesPriority
    CriticalIsSupportedOrRaised
    PositionNeverLiftsAHold
    LostEvidenceNeverDispatches
    ContentionIsHonest
    PickServesThePosition
    ClauseFitsTheRoute
\* The single decision is made and the behaviour ends.
CHECK_DEADLOCK FALSE
