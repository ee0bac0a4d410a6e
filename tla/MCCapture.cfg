\* A recording ends once; nothing is left to do after its last recovery.
CHECK_DEADLOCK FALSE
SPECIFICATION Spec
CONSTANTS
    Minute = 2
    BlockSizes = {1, 2}
    FlushEvery = 2
    MaxFrames = 4
    MaxFaults = 2
    MaxCrashes = 2
    MaxPowerLoss = 1
INVARIANTS
    AudioKeptUnlessOvertaken
    IndexNamesFiles
    CompletedIsExact
    SlotIsReclaimable
PROPERTIES
    LaunchIndexesUnlessBehind
