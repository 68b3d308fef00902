\* Every chain of documents, and behind it every order of redirects and polls.
SPECIFICATION FairSpec
CONSTANTS
    None = None
    Forever = Forever
    NoRedirect = NoRedirect
    Pointers <- MCPointers
    Requested <- MCRequested
    Overrides <- MCOverrides
    Targets <- MCTargets
    ResourceDocs <- MCResourceDocs
    ServerDocs <- MCServerDocs
    MaxRedirects = 1
    Strays <- MCStrays
    Genuine <- MCGenuine
    MaxArrivals = 3
    Intervals = {0, 2, 9, None}
    Lifetimes = {0, 12}
    Latencies = {0, 3}
    MaxPollInterval = 5
    DefaultInterval = 3
    SlowDownIncrement = 2
    MaxPolls = 4
INVARIANTS
    StraysEndNothing
    PollsKeepTime
    SecretsGoToTheVouched
PROPERTIES
    GrantKept
    DeviceFlowEnds
CHECK_DEADLOCK FALSE
