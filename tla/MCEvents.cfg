\* Every bound is used up in the end: nothing is left to publish.
CHECK_DEADLOCK FALSE
SPECIFICATION FairSpec
CONSTANTS
    Seqs = {1}
    MaxRowRev = 2
    MaxRevision = 4
    MaxRun = 2
    MaxAcks = 1
    MaxFaults = 1
    QueueLimit = 2
    BufferLimit = 2
INVARIANTS
    LagIsInFlight
PROPERTIES
    RunNeverRegresses
    WindowCatchesUp
