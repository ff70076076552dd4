SPECIFICATION Spec
CONSTANTS
    Units         <- MCUnits
    UnitType      <- MCUnitType
    UnitZone      <- MCUnitZone
    EcoScore      <- MCEcoScore
    Clients       = {1}
    Requests      = {"inject", "injectBad", "report", "policy", "pause"}
    SimIncidents  = {1, 2}
    FeedIncidents = {}
    Kinds         <- MCFire
    Bursts        = {1, 2}
    Recordings    <- NoRecordings
    OverrideKinds = {}
    UsedPositions <- Positions
    Assessments   <- MCTwo
    MaxDecisions  = 4
    MaxIds        = 8
    MaxReports    = 4
    MaxRejects    = 0
INVARIANTS
    EngineTypeOK
    HardRejectionSticks
    ViewsNeverDrift
    NothingLeftUndecided
\* The bounds on ids, reports and decisions stop the model.
CHECK_DEADLOCK FALSE
