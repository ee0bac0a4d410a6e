\* Two calls with one plan, and nothing fails.
SPECIFICATION Spec
CONSTANTS
    n1 = n1
    n2 = n2
    unfiled = unfiled
    c1 = c1
    c2 = c2
    Topics <- MCTopics
    Unfiled = unfiled
    Calls <- TwoCalls
    Tabs <- MCTabs
    MaxVersion = 3
    Kinds <- NoKinds
    MaxTroubles = 0
INVARIANT NeverLost
CHECK_DEADLOCK FALSE
