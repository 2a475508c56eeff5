SPECIFICATION FairSpec
CONSTANTS
    n1 = n1 n2 = n2 w1 = w1 w2 = w2 d = d t1 = t1 t2 = t2 None = None
    Workers = {w1, w2}
    Watchers = {}
    Tasks = {t1}
    Nodes = {n1}
    Home <- mcHome
    InitReady = {w1, w2}
    MaxAttempts = 2
    MaxConcurrent = 1
    MayExpire = TRUE
    Faults = {}
    MaxFaults = 0
INVARIANTS SettledIsAnswered TaskIsOffered
PROPERTIES OutcomeIsKept RetryIsClaimed
CHECK_DEADLOCK FALSE
