\* The words placed early. With SPECIFICATION FairSpec, Window = 1, Fast = 0, MaxPauses = 1
\* and PROPERTY StopEnds in place of the invariant: the Finish that is forgotten.
SPECIFICATION Spec
CONSTANTS
    MaxAudio = 3
    Window = 2
    Fast = 1
    Overlap = 1
    MaxFaults = 2
    MaxPauses = 0
INVARIANTS
    WordsInPlace
CHECK_DEADLOCK FALSE
