\* All four subjects; every call to the batch's own account.
SPECIFICATION DataSpec
CONSTANTS
    Subjects = {"patch", "text", "blobs", "query"}
    Keys <- MCKeys
    Values = {"true"}
    Null = "null"
    ArrayTokens = {"0", "1"}
    MapProperties = {"m"}
    AllowArrayIndex = FALSE
    AllowWhole = FALSE
    Patches <- MCPatches
    Memberships <- MCMemberships
    Parsed <- MCParsed
    Map = "m"
    Set = "true"
    ShareWith = "k"
    Principals = {"t", "0"}
    Rights = "true"
    Owner = "0"
    Documents <- MCDocuments
    MaxSafe = 1
    LongLiteral = 5
    Convertible = 8
    ParseDepth = 2
    WalkDepth = 1
    IndexOf <- MCIndexOf
    Advertised = {"blob", "core"}
    Failing = {}
    Algorithms = {"digest:sha", "digest:other"}
    CallLimit = 2
    NotRequestQuirk = FALSE
    None = None
    Evaluate <- Resolve
    Creations <- MCCreations
    Reads <- MCReads
    Lookups <- MCLookups
    Digests = {"digest:sha", "digest:other", "digest:none"}
    Contents <- MCContents
    Accounts = {"own"}
    DefaultAccount = "own"
    Capability <- MCCapability
    MaxUpload = 3
    MaxCalls = 3
    a = a
    b = b
    c = c
    Records <- MCRecords
    Gap = Gap
    NoState = NoState
    NoTotal = NoTotal
    MaxVersions = 2
SYMMETRY Symmetric
INVARIANTS
    PatchIsSound
    OnlyIJSONPasses
    
    ViewAgrees
PROPERTIES
    RefusalsAreJust
    
CHECK_DEADLOCK FALSE
