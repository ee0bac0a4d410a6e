CONSTANTS
    t1 = t1
    t2 = t2
    t3 = t3
    Tasks <- MCTasks
    Malformed <- MCMalformed
    RetryPolicies <- MCPolicies
    RetryCap = 1
    Priorities <- MCPriorities
    Permits = 2
    LeaseTicks = 2
    MaxNow = 3
SPECIFICATION Spec
PROPERTIES
    NoEarlyTakeover
    ImplementsTable
CHECK_DEADLOCK FALSE
