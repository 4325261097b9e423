SPECIFICATION MCSpec
CONSTANTS
    d1 = d1
    d2 = d2
    w1 = w1
    Digests = {d1, d2, d3}
    Owners <- MCOwners
    Procs = {p1, p2}
    None = None
    Quota = 2
    Limit = 2
    MaxTime = 2
    Faults = {"corrupt", "io", "drop", "crash"}
    Workspaces = {w1, w2}
    Manifests <- MCManifests
    Output = d1
    WorkspaceQuota = 2
    Retention = 1
    ReaderLease = 1
    MaxKeys = 2
    Handlers = {"create", "derive", "execute", "download", "collect"}
    Parts = {"blobs", "uploads", "execute", "download", "create", "derive"}
INVARIANTS
    QuotaHeld
    IndexedReadable
    ActiveKept
    WorkspacesSound
    BytesKept
PROPERTIES
    PinnedKept
CHECK_DEADLOCK FALSE
