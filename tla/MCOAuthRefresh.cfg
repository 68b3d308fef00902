\* Two threads, two rotations.
SPECIFICATION FairRenewSpec
CONSTANTS
    t1 = t1
    t2 = t2
    Threads <- MCThreads
    NoThread = NoThread
    MaxTokens = 2
INVARIANTS
    NoReplay
    PersistedFirst
    OnlyTheRefusedIsRenewed
PROPERTIES
    LockReleased
CHECK_DEADLOCK FALSE
