\* A session refresh that no longer resolves a method the batch was built with.
SPECIFICATION Spec
CONSTANTS
    CallKinds <- MCFewKinds
    Types <- MCTypes
    Keys <- MCKeys
    NoKey = NoKey
    MaxBatch = 2
    MaxCallsInRequest = 2
    MaxObjectsInSet = 1
    StatusCodes <- MCStatuses
    MaxState <- MCMaxState
    SessionViews <- MCLossyViews
    UnaskedCreatedIds = TRUE
    MaxAttempts = 2
INVARIANTS
    AtMostOnce
CHECK_DEADLOCK FALSE
