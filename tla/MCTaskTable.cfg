\* Two rows and the two retry policies of the app: one attempt, or three.
CONSTANTS
    Tasks = {t1, t2}
    RetryPolicies = {1, 3}
    RetryCap = 3
    RunCap = 5
SPECIFICATION AttemptsSpec
INVARIANTS
    AttemptsBudgeted
PROPERTY TerminalNeverReclaimed
CHECK_DEADLOCK FALSE
