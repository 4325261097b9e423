SPECIFICATION FairSpec
CHECK_DEADLOCK FALSE
CONSTANTS
    Requests <- MCRequests
    Streams = {"stdout"}
    CaptureLimit = 0
    Channel = 1
    None = None
    Faults = {"setup", "slow", "signal", "stuck"}
INVARIANTS
    RequiredEnforced
    HonestResult
    ReturnIsEnd
PROPERTIES
    RunReturns
