SPECIFICATION Spec
CHECK_DEADLOCK FALSE
CONSTANTS
    Requests <- MCRequests
    Streams = {"stdout"}
    CaptureLimit = 0
    Channel = 1
    None = None
    Faults = {}
INVARIANT
    TreeGone
