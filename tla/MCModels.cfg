\* One server thread and the jobs it leaves behind on two workers; any model may
\* hang and recover.
SPECIFICATION FairSpec
CONSTANTS
    Units    <- MCUnits
    UnitType <- MCUnitType
    UnitZone <- MCUnitZone
    EcoScore <- MCEcoScore
    Clients = {c1}
    Workers = {w1, w2}
    Cases <- MCCases
    Raw <- MCRaw
    LiveResults <- MCLive
    Modes = {"mock", "live"}
    MaxJobs = 6
    NoJob = NoJob
INVARIANTS EachCallHasItsJob DispatchRestsOnEvidence
PROPERTIES EveryDecisionIsMade BacklogDrains
CHECK_DEADLOCK FALSE
