\* Two walks over one cursor, crashes, and a restless server.
SPECIFICATION FairSpec
CONSTANTS
    w1 = w1
    w2 = w2
    a = a
    b = b
    Walks <- MCWalks
    Ids <- MCId
    NoCursor = NoCursor
    MaxChanges = 2
    ResetMidWalk = FALSE
INVARIANTS
    AccountedFor
    ChangeSetSuffices
PROPERTIES
    KeepsPromise
    CatchUpEnds
CHECK_DEADLOCK FALSE
