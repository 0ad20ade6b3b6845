SPECIFICATION Spec
CONSTANTS
    MaxVersion = 2
    MaxAttempts = 2
    MaxCrashes = 1
    Revocable = TRUE
    Push = TRUE
INVARIANTS TypeOK EventNotLost ReportedIsPromoted SavedIsPromoted
PROPERTIES RevokedNotRestarted
