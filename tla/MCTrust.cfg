\* One client: floods of three and four identities among other reports.  Of the
\* two ways to a new session the one that renews the registry.
SPECIFICATION TrustSpec
CONSTANTS
    Clients    = {c1}
    Requests   = {"inject", "replay", "sybil", "reoptimise", "whatIf", "reset"}
    Fakes      <- MCFakes
    Floods     = {3, 4}
    Severities = {1, 3}
    Gap        = 200
    MaxEvents  = 7
    MaxClock   = 210
    MaxAgain   = 1
INVARIANTS FloodIsFlagged CleanSourceStaysTrusted
\* The bound on reports stops the model.
CHECK_DEADLOCK FALSE
