\* A row is replaced by its final fact. With PROPERTY RevisionKeepsFeed: its feed.
CONSTANTS
    Facts <- MCFacts
    Heard <- MCHeard
    Spoken = "own"
    MaxSource = 2
    MaxRevisions = 5
    MaxEdits = 0
    MaxFaults = 0
    MaxCrashes = 0
SPECIFICATION Spec
INVARIANT FinalFactsAreShown
CHECK_DEADLOCK FALSE
