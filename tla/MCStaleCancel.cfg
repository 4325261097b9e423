\* Two generations under one lease and one cancel.
SPECIFICATION NodeSpec
CONSTANTS
    ExecutionIds = {e1}
    Digests = {d1}
    Principals = {p1}
    Leases = {l1}
    RenewalIds = {r1}
    None = None
    OutputSizes = {1}
    StateEventBytes = 1
    LeaseTtl = 1
    MAX_RETAINED_EVENTS = 1
    MAX_RETAINED_EVENT_BYTES = 1
    MAX_EXECUTION_IDENTITIES = 2
    MaxGeneration = 2
    MaxSequence = 9
    MaxTime = 1
    Controllers = {c1}
    Operations = {"cancel"}
    MaxActive = 2
    MAX_RECENT_EXECUTIONS = 1
    MaxOutput = 0
    Exits = {"Succeeded"}
    Disturbances = {}
INVARIANTS
    CancelFenced
