SPECIFICATION Spec
CONSTANTS
    t1 = t1
    r1 = r1
    u1 = u1
    Scheduler = scheduler
    Tasks <- MCTasks
    Remediators <- MCRemediators
    Users <- MCUsers
    MaxControls = 1
    MaxCrashes = 1
INVARIANTS
    TypeOK
    LeaseHasHolder
    StoppedTaskHasNoProcess
PROPERTIES
    
    FinishedTaskSettles
