CONSTANTS
    Facts <- MCFacts
    Heard <- MCHeard
    Spoken = "own"
    MaxSource = 2
    MaxRevisions = 4
    MaxEdits = 1
    MaxFaults = 1
    MaxCrashes = 1
SPECIFICATION Spec
INVARIANT AppliedIsWrittenUnlessMishap
INVARIANT LaneHoldsItsFacts
PROPERTY SettledOnlyGrows
CHECK_DEADLOCK FALSE
