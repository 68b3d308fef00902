\* Every search and redirect; behind a session every batch of two calls.
SPECIFICATION Spec
CONSTANTS
    NoSpec = NoSpec
    Junk = Junk
    Now = 100
    ControlChars = {"nul"}
    NoSession = NoSession
    NotRead = NotRead
    Relative = Relative
    Specs <- MCSpecs
    URNs <- MCURNs
    Core = "core"
    Suggested = 3
    Domain = 1
    InDomain = {1, 2}
    SRVRecords <- MCRecords
    Direct <- MCDirect
    Hops <- MCHops
    Documents <- MCDocuments
    Experimental = FALSE
    MaxHops = 1
    AccountIds = {NoSpec, "me"}
    Calls <- MCCalls
    Extra = {{}}
    Sizes = {3, 4}
    States = {"", "s2"}
    MaxCalls = 2
    MaxOut = 2
    MaxVersion = 2
INVARIANTS
    CredentialsStayPut
    RequestsAreServed
    ReadsAreWhole
    StalenessKept
CHECK_DEADLOCK FALSE
