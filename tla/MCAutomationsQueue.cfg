SPECIFICATION Spec
CONSTANTS
    t1 = t1
    t2 = t2
    r1 = r1
    r2 = r2
    Nobody = Nobody
    Triggers <- MCTriggers
    Runs <- MCRuns
    Limit = 1
    MaxCrashes = 1
PROPERTIES
    QueueOneMoves
CHECK_DEADLOCK FALSE
