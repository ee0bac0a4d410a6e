CONSTANTS
    t1 = t1
    t2 = t2
    Tasks <- MCTasks
    MaxAttempts = 2
    MaxCrashes = 2
    Failures <- AllFailures
SPECIFICATION Spec
INVARIANTS
    JournalIsHonoured
    SuccessLeavesNothing
CHECK_DEADLOCK FALSE
