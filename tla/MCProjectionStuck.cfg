CONSTANTS
    Facts <- MCFacts
    Heard <- MCHeard
    Spoken = "own"
    MaxSource = 2
    MaxRevisions = 4
    MaxEdits = 1
    MaxFaults = 0
    MaxCrashes = 0
SPECIFICATION Spec
INVARIANT StagedCanFinish
CHECK_DEADLOCK FALSE
