SPECIFICATION Spec
CONSTANTS
    Pollers <- MCAll
    Clients = {c1}
    Daemons = {d1}
    Flaky = {"gdacs"}
    Threshold = 2
    Answers <- MCAnswers
    MaxItems = 2
    MaxFailures = 5
    MaxHolds = 2
    None = None
INVARIANT FedEventsAreDecided
CHECK_DEADLOCK FALSE
