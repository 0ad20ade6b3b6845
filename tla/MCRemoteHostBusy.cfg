SPECIFICATION ReportingSpec
CONSTANTS
    Approvers = {a1}
    Users = {}
    Loop = loop
    MaxEpoch = 1
    MaxSeq = 1
    MaxRuns = 1
    MaxInbox = 1
    Persistent = FALSE
    MayRestore = TRUE
PROPERTIES StopFreesHost
CHECK_DEADLOCK FALSE
