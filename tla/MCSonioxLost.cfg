\* A stretch without a gap. With INVARIANT FailsOnlyWhenStopping: a refused hand-over.
SPECIFICATION Spec
CONSTANTS
    MaxAudio = 4
    Window = 1
    Fast = 0
    Overlap = 1
    MaxFaults = 2
    MaxPauses = 1
INVARIANTS
    NothingLost
CHECK_DEADLOCK FALSE
