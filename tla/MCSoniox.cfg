SPECIFICATION FairSpec
CONSTANTS
    MaxAudio = 4
    Window = 1
    Fast = 0
    Overlap = 1
    MaxFaults = 2
    MaxPauses = 1
INVARIANTS
    ClockCountsAudio
    WordsOnceInPlace
    NothingLostUnlessUnanchored
PROPERTIES
    StopEndsUnlessCut
CHECK_DEADLOCK FALSE
