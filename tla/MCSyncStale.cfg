\* Two devices that meet in a race. With Troubles <- Nothing, MaxTroubles = 0,
\* SPECIFICATION Spec and INVARIANT QuietLinksAgree: two that meet undisturbed.
\* With Troubles <- Fail: one exports before a failed transaction has dropped the
\* cache; with SPECIFICATION Spec and PROPERTY KeepsFacts too, what that loses.
CONSTANTS
    a = a
    b = b
    lib = lib
    topic = topic
    note = note
    u1 = u1
    u2 = u2
    u3 = u3
    r1 = r1
    Devices <- TwoDevices
    Pairs <- OnePair
    Docs <- LibDocs
    Notes <- NoNotes
    Home <- NoHome
    Updates <- LibUpdates
    Maker <- LibMaker
    DocOf <- LibDocOf
    Creates <- LibEdits
    Reversals <- LibReversals
    Reverses <- LibReverses
    Troubles <- Race
    MaxTroubles = 1
SPECIFICATION FairSpec
PROPERTY Converges
CHECK_DEADLOCK FALSE
