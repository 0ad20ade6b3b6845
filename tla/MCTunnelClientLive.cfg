SPECIFICATION FairSpec
CONSTANTS
    MaxVersion = 2
    MaxAttempts = 1
    MaxCrashes = 0
    Revocable = TRUE
    Push = FALSE
PROPERTIES RevokedStops PublishedIsApplied
