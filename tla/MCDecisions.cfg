\* Two threads, three requests, one restart with another calibration.
SPECIFICATION Spec
CONSTANTS
    t1 = t1
    t2 = t2
    Threads <- MCThreads
    Texts = {"plain", "unsure", "unreadable"}
    AnswerOf <- MCAnswerOf
    Exponents = {1, 2}
    MaxRequests = 3
    MaxStarts = 2
    Cap = 2
INVARIANTS AnsweredIsOnRecord CountsAgree LoadedOnce
CHECK_DEADLOCK FALSE
