CONSTANTS
    a = a
    b = b
    lib = lib
    topic = topic
    note = note
    u1 = u1
    u2 = u2
    u3 = u3
    r1 = r1
    Devices <- TwoDevices
    Pairs <- OnePair
    Docs <- TopicDocs
    Notes <- TopicNotes
    Home <- TopicHome
    Updates <- TopicUpdates
    Maker <- TopicMaker
    DocOf <- TopicDocOf
    Creates <- TopicCreates
    Reversals <- NoReversals
    Reverses <- NoReverses
    Troubles <- Anything
    MaxTroubles = 1
SPECIFICATION Spec
INVARIANTS
    SyncedCoversSummary
CHECK_DEADLOCK FALSE
