CONSTANTS
    s1 = s1
    None = None
    Sessions <- OneSession
    Destroying <- OneSession
    Deletable <- OneSession
    KeyMayVanish = TRUE
    MaxCrashes = 2
    MaxFaults = 2
    AttemptCap = 6
SPECIFICATION FairSpec
INVARIANTS
    NothingLost
    RunAgrees
    UploadsAccounted
    OneProjector
    ErasureHolds
PROPERTIES
    KeepsPromise
    UploadIsWanted
    RequestsEnd
