SPECIFICATION Spec
CONSTANTS
    MaxVersion = 2
    MaxAttempts = 1
    MaxCrashes = 0
    Revocable = FALSE
    Push = TRUE
INVARIANTS PollIsFallback
