\* A response is lost. With Failures <- SweepFails: a sweep fails.
\* With Failures <- Reruns: a task is attempted again after its deletions failed.
CONSTANTS
    t1 = t1
    t2 = t2
    Tasks <- MCTasks
    MaxAttempts = 2
    MaxCrashes = 2
    Failures <- ResponseLost
SPECIFICATION Spec
INVARIANTS
    JournalCoversRemote
CHECK_DEADLOCK FALSE
