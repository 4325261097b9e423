\* The operator, an update and the daemon.
SPECIFICATION MCSpec
CONSTANTS
    Parts = {"deployment"}
    ExecutionIds = {e1}
    Digests = {d1}
    Principals = {p1}
    Leases = {l1}
    RenewalIds = {r1}
    None = None
    OutputSizes = {2}
    StateEventBytes = 1
    LeaseTtl = 1
    MAX_RETAINED_EVENTS = 3
    MAX_RETAINED_EVENT_BYTES = 4
    MAX_EXECUTION_IDENTITIES = 1
    MaxGeneration = 1
    MaxSequence = 5
    MaxTime = 0
    EVENT_CAPACITY = 1
    WireCapacity = 1
    MaxBreaks = 2
    Key <- FollowedKey
    Refresh = 1
    Freshness = 2
    MaxBackoff = 3
    MaxSkew = 1
    MaxLag = 5
    MaxDrift = 2
    Absent = Absent
    Handlers = {h1, h2}
    MaxStarts = 2
    limit = 5
    MaxPiece = 4
    MaxTotal = 12
    Paths <- MCPaths
    Portable <- MCPortable
    Fold <- MCFold
    Rank <- MCRank
    Blobs = {"d1"}
    SizeOf <- MCSizeOf
    MaxEntries = 3
    MaxDepth = 2
    MaxLogicalBytes = 2
    Submissions = 2
    Changes = 2
    MAX_EVENT_BYTES = 8
    MaxChunk = 5
    Bodies <- MCBodies
    Methods = {"GET", "POST", "PUT"}
    RequestPaths <- MCRequestPaths
    BodyContents <- MCContents
    Withheld <- MCWithheld
    BlobIds = {"digest"}
    Malformed = {"bad"}
    Certificates = {"c1", "c2", "c3", "c4"}
    Clients <- MCClients
    MAX_REQUEST_BYTES = 2
    MAX_BLOB_FIND_REQUEST_BYTES = 1
    MAX_WORKSPACE_REQUEST_BYTES = 3
    MAX_BLOB_BYTES = 4
    Nothing = Nothing
    Calls <- MCCalls
    Builds <- MCBuilds
    MaxRows = 2
    Wanted <- MCWanted
    Bound <- MCBound
    Identifiers = {"EXECUTION_ID", "LANG", "PATH", "X", "Y", "Z"}
    Assignable = {"EXECUTION_ID", "LANG", "PATH", "X", "Y", "Z", "loose"}
    Denied = {"PATH"}
    Baseline <- MCBaseline
    Provenance <- MCProvenance
    NameOrder <- MCNameOrder
    HostStates = {{}, {"helper", "landlock", "memory", "cpu", "pids"}, {"helper", "memory"}, {"landlock", "memory", "pids"}}
    Unset = Unset
INVARIANT UndrainTakesEffect
CHECK_DEADLOCK FALSE
