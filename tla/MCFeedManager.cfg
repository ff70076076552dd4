\* A request and the daemon cycle over the four feeds; the service of one may fail.
SPECIFICATION FairSpec
CONSTANTS
    Pollers <- MCAll
    Clients = {c1}
    Daemons = {d1}
    Flaky = {"gdacs"}
    Threshold = 2
    Answers <- MCAnswers
    MaxItems = 2
    MaxFailures = 5
    MaxHolds = 2
    None = None
INVARIANTS DeadFeedCostsLittle 
PROPERTY RecoveredFeedIsUsed
CHECK_DEADLOCK FALSE
