\* One caller that may ask again and again; the model may come back.
CONSTANTS
    Callers = {c1}
    States = {s1, s2}
    Threads = {t1, t2, t3}
    Threshold = 2
    ProbeEvery = 2
    MaxAttempts = 2
    MaxAdapters = 2
    MaxBlocked = 4
    None = None
SPECIFICATION FairSpec
INVARIANTS LayaTypeOK AnswersItsOwnState FailuresArePaid
PROPERTIES EveryCallIsAnswered RecoveredModelIsUsed
CHECK_DEADLOCK FALSE
