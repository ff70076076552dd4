SPECIFICATION Spec
CONSTANTS
    Writers   = {w1, w2}
    Bodies    = {decision, override}
    NoWriter  = NoWriter
    MaxNumber = 4
INVARIANTS
    ChainIntact
    AcknowledgedIsDurable
PROPERTY ImplementsLedger
\* The counter's bound stops the model.
CHECK_DEADLOCK FALSE
