\* A split batch against a server that returns createdIds only when given some.
SPECIFICATION Spec
CONSTANTS
    CallKinds <- MCSplitKinds
    Types <- MCTypes
    Keys <- MCKeys
    NoKey = NoKey
    MaxBatch = 2
    MaxCallsInRequest = 1
    MaxObjectsInSet = 1
    StatusCodes <- MCStatuses
    MaxState <- MCMaxState
    SessionViews <- MCViews
    UnaskedCreatedIds = FALSE
    MaxAttempts = 2
INVARIANTS
    CreationRefsResolve
CHECK_DEADLOCK FALSE
