\* One identity with two generations.  A step of either instance is a step of the
\* node under these constants; the instances restrict what may come between.
SPECIFICATION NodeSpec
CONSTANTS
    ExecutionIds = {e1}
    Digests = {d1, d2}
    Calm = d1
    Principals = {p1}
    Leases = {l1}
    RenewalIds = {r1}
    None = None
    OutputSizes = {1}
    StateEventBytes = 1
    LeaseTtl = 1
    MAX_RETAINED_EVENTS = 1
    MAX_RETAINED_EVENT_BYTES = 1
    MAX_EXECUTION_IDENTITIES = 2
    MaxGeneration = 2
    MaxSequence = 9
    MaxTime = 1
    Controllers = {c1}
    Operations = {"renew", "cancel"}
    MaxActive = 2
    MAX_RECENT_EXECUTIONS = 2
    MaxOutput = 1
    Exits = {"Succeeded"}
    Disturbances = {"store", "setup", "reader", "shutdown", "crash"}
ACTION_CONSTRAINT InOneInstance
INVARIANTS
    RunnersDisjoint
    RenewalFenced
    SnapshotDurable
    ShutdownReachesAll
    StoppedIsQuiet
PROPERTIES
    ImplementsStore
