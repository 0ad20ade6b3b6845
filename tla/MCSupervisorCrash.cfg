SPECIFICATION Spec
CONSTANTS
    Versions = {1, 2}
    Entries = {1, 2}
    Need <- MCNeed
    Leases = {0, 1, 2}
    LeaseMargin = 1
    RestartFailureLimit = 1
    RestartCooldown = 2
    MaxShift = 1
    TickAge = 1
    MaxFailures = 2
    MaxCrashes = 1
    NoTime = NoTime
INVARIANT NewestUsed
