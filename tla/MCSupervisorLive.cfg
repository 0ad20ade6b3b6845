SPECIFICATION FairSpec
CONSTANTS
    Versions = {1}
    Entries = {1, 2}
    Need <- MCNeedOne
    Leases = {0, 2}
    LeaseMargin = 1
    RestartFailureLimit = 0
    RestartCooldown = 1
    MaxShift = 1
    TickAge = 1
    MaxFailures = 1
    MaxCrashes = 0
    NoTime = NoTime
PROPERTIES ExpiredAgentStops ShutdownCompletes ApplyReturns
