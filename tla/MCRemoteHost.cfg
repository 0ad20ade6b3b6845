SPECIFICATION Spec
CONSTANTS
    Approvers = {a1}
    Users = {u1}
    Loop = loop
    MaxEpoch = 1
    MaxSeq = 1
    MaxRuns = 1
    MaxInbox = 1
    Persistent = TRUE
    MayRestore = FALSE
INVARIANTS TypeOK RevokedNotServed DisabledStopsMedia
