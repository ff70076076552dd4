SPECIFICATION Spec
CONSTANTS
    Units         <- MCUnits
    UnitType      <- MCUnitType
    UnitZone      <- MCUnitZone
    EcoScore      <- MCEcoScore
    Clients       = {1}
    Requests      = {"start", "reset", "inject", "whatIf", "override", "image", "feeds"}
    SimIncidents  = {1, 2}
    FeedIncidents = {9}
    Kinds         <- MCAccident
    Bursts        = {1}
    Recordings    <- MCRecordings
    OverrideKinds = {"CHANGE_PRIORITY"}
    UsedPositions <- Positions
    Assessments   <- MCOne
    MaxDecisions  = 4
    MaxIds        = 4
    MaxReports    = 3
    MaxRejects    = 1
INVARIANTS
    IdsAreFresh
    LatestIsCurrent
PROPERTY WhatIfLeavesNoTrace
\* The bounds on ids, reports and decisions stop the model.
CHECK_DEADLOCK FALSE
