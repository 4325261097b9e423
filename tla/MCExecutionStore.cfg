\* Journals that retain three events and five bytes; output chunks fit, fill the
\* byte bound alone, or exceed it.  Two identities with two generations each, and
\* a table one row short of all of them.
SPECIFICATION MCStoreSpec
CONSTANTS
    ExecutionIds = {e1, e2}
    Digests = {d1, d2}
    Principals = {p1}
    Leases = {l1, l2}
    RenewalIds = {r1, r2}
    None = None
    OutputSizes = {1, 5, 6}
    StateEventBytes = 2
    LeaseTtl = 1
    MAX_RETAINED_EVENTS = 3
    MAX_RETAINED_EVENT_BYTES = 5
    MAX_EXECUTION_IDENTITIES = 3
    MaxGeneration = 2
    MaxSequence = 5
    MaxTime = 2
SYMMETRY Symmetry
INVARIANTS
    JournalIntact
    OutcomeJournaled
    PageContract
    TrimIsLoop
PROPERTIES
    ImplementsContract
