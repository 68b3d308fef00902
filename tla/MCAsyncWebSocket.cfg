\* Two tasks, two requests, two connections, two changes.
SPECIFICATION Spec
CONSTANTS
    a = a
    b = b
    Tasks <- MCTasks
    MaxRequests = 2
    MaxChanges = 2
    MaxSockets = 2
    MaxQueued = 2
    LateNameless = FALSE
    DrainFirst = TRUE
SYMMETRY Symmetric
INVARIANTS
    
    
    NobodyWaitsOnTheDead
    ResumeCovers
CHECK_DEADLOCK FALSE
