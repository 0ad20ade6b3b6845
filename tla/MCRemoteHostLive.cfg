SPECIFICATION FairSpec
CONSTANTS
    Approvers = {a1}
    Users = {}
    Loop = loop
    MaxEpoch = 1
    MaxSeq = 2
    MaxRuns = 1
    MaxInbox = 1
    Persistent = FALSE
    MayRestore = TRUE
PROPERTIES LeasedStopFreesHost ApprovalEnds
CHECK_DEADLOCK FALSE
