CONSTANTS
    Facts <- MCFacts
    Heard <- MCHeard
    Spoken = "own"
    MaxSource = 1
    MaxRevisions = 3
    MaxEdits = 1
    MaxFaults = 2
    MaxCrashes = 1
SPECIFICATION Spec
INVARIANT AppliedIsWritten
CHECK_DEADLOCK FALSE
