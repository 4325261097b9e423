\* One execution, renewed under two renewal ids, cancelled, and with a runner that fails.
SPECIFICATION FairNodeSpec
CONSTANTS
    ExecutionIds = {e1}
    Digests = {d1}
    Calm = d1
    Principals = {p1}
    Leases = {l1}
    RenewalIds = {r1, r2}
    None = None
    OutputSizes = {1}
    StateEventBytes = 1
    LeaseTtl = 2
    MAX_RETAINED_EVENTS = 1
    MAX_RETAINED_EVENT_BYTES = 1
    MAX_EXECUTION_IDENTITIES = 2
    MaxGeneration = 1
    MaxSequence = 9
    MaxTime = 3
    Controllers = {c1}
    Operations = {"renew", "cancel"}
    MaxActive = 2
    MAX_RECENT_EXECUTIONS = 1
    MaxOutput = 0
    Exits = {"Succeeded"}
    Disturbances = {"setup", "reader", "crash"}
ACTION_CONSTRAINT CancelledOnce
PROPERTIES
    NoEarlyExpiry
    AcceptedEnds
    ExpiryInterrupts
