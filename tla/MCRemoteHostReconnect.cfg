SPECIFICATION Spec
CONSTANTS
    Approvers = {a1}
    Users = {}
    Loop = loop
    MaxEpoch = 2
    MaxSeq = 2
    MaxRuns = 2
    MaxInbox = 1
    Persistent = FALSE
    MayRestore = FALSE
CHECK_DEADLOCK FALSE
INVARIANTS NoOrphanMedia
PROPERTIES ProofWhenStopped
