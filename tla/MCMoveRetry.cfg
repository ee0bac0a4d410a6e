\* A crash in the middle of a move, an edit, the move again. With INVARIANT
\* ErasedEverywhere: a crash before the clearing, then Delete Forever.
\* With Kinds <- OnlyPeer and INVARIANT PeerMoveArrives: a peer's move, and a move here
\* before it was followed.
SPECIFICATION Spec
CONSTANTS
    n1 = n1
    n2 = n2
    unfiled = unfiled
    c1 = c1
    c2 = c2
    Topics <- MCTopics
    Unfiled = unfiled
    Calls <- OneCall
    Tabs <- MCTabs
    MaxVersion = 3
    Kinds <- OnlyCrash
    MaxTroubles = 1
INVARIANT NeverLost
CHECK_DEADLOCK FALSE
