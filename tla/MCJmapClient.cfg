\* The exchange with the server the code expects: batches of up to three calls
\* in requests of up to two, two attempts each; and it ends.
SPECIFICATION FairSpec
CONSTANTS
    CallKinds <- MCKinds
    Types <- MCTypes
    Keys <- MCKeys
    NoKey = NoKey
    MaxBatch = 3
    MaxCallsInRequest = 2
    MaxObjectsInSet = 1
    StatusCodes <- MCStatuses
    MaxState <- MCMaxState
    SessionViews <- MCViews
    UnaskedCreatedIds = TRUE
    MaxAttempts = 2
INVARIANTS
    AtMostOnce
    ErrorMeansUnapplied
    AppliedInQueueOrder
    CreationRefsResolve
    PlanSound
    AnsweredPrefix
PROPERTIES
    Terminates
CHECK_DEADLOCK FALSE
