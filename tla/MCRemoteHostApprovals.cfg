SPECIFICATION Spec
CONSTANTS
    Approvers = {a1, a2}
    Users = {}
    Loop = loop
    MaxEpoch = 1
    MaxSeq = 1
    MaxRuns = 2
    MaxInbox = 1
    Persistent = TRUE
    MayRestore = TRUE
SYMMETRY Symmetric
CHECK_DEADLOCK FALSE
INVARIANTS StopReachesWorker DisabledStopsMedia
