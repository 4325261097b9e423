\* Shutdown of a node whose durable writes may fail; the map has room for one
\* record, so that an execution evicts the one before it.
SPECIFICATION FairNodeSpec
CONSTANTS
    ExecutionIds = {e1, e2}
    Digests = {d1}
    Principals = {p1}
    Leases = {l1}
    RenewalIds = {r1}
    None = None
    OutputSizes = {1}
    StateEventBytes = 1
    LeaseTtl = 1
    MAX_RETAINED_EVENTS = 1
    MAX_RETAINED_EVENT_BYTES = 1
    MAX_EXECUTION_IDENTITIES = 2
    MaxGeneration = 1
    MaxSequence = 9
    MaxTime = 1
    Controllers = {}
    Operations = {"cancel"}
    MaxActive = 2
    MAX_RECENT_EXECUTIONS = 1
    MaxOutput = 0
    Exits = {"Succeeded"}
    Disturbances = {"store", "shutdown"}
PROPERTIES
    ShutdownEnds
