SPECIFICATION Spec
CONSTANTS
    n1 = n1
    n2 = n2
    unfiled = unfiled
    c1 = c1
    c2 = c2
    Topics <- MCTopics
    Unfiled = unfiled
    Calls <- TwoCalls
    Tabs <- MCTabs
    MaxVersion = 3
    Kinds <- AllKinds
    MaxTroubles = 2
SYMMETRY Alike
CONSTRAINT Telling
INVARIANTS
    HomeIsWhole
    OnlyHomeHoldsIt
CHECK_DEADLOCK FALSE
