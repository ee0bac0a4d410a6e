CONSTANTS
    a = a
    b = b
    lib = lib
    topic = topic
    note = note
    u1 = u1
    u2 = u2
    u3 = u3
    r1 = r1
    Devices <- TwoDevices
    Pairs <- OnePair
    Docs <- LibDocs
    Notes <- NoNotes
    Home <- NoHome
    Updates <- LibUpdates
    Maker <- LibMaker
    DocOf <- LibDocOf
    Creates <- LibEdits
    Reversals <- LibReversals
    Reverses <- LibReverses
    Troubles <- Anything
    MaxTroubles = 1
SPECIFICATION FairSpec
INVARIANTS
    LinksAddUp
PROPERTIES
    KeepsFactsUnlessOvertaken
    ConvergesUnlessStale
CHECK_DEADLOCK FALSE
