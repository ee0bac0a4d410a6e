\* A late snapshot. With INVARIANT NothingResurrected instead: a buffered delta.
\* Every bound is used up in the end: nothing is left to publish.
CHECK_DEADLOCK FALSE
SPECIFICATION Spec
CONSTANTS
    Seqs = {1}
    MaxRowRev = 2
    MaxRevision = 5
    MaxRun = 2
    MaxAcks = 0
    MaxFaults = 1
    QueueLimit = 2
    BufferLimit = 2
PROPERTY
    ViewNeverRegresses
