SPECIFICATION FairSpec
CONSTANTS
    Ids = {t1, t2, t3}
    Branches = {b1}
    MaxTasks = 3
    MaxParallel = 2
    MaxTurns = 3
    MaxDelegated = 2
    MaxRestarts = 1
    None = None
INVARIANTS TypeOK NoRepeatedWork NeverStranded ReviewIsComplete
PROPERTIES StopsAfterExecutionFailure Settles
CHECK_DEADLOCK FALSE
