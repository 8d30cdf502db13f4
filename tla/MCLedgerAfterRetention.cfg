SPECIFICATION Spec
CONSTANTS
    k1 = k1
    a1 = a1
    a2 = a2
    a3 = a3
    NoTask = NoTask
    Keys <- MCKeys
    Attempts <- MCAttempts
    KeyOf <- MCKeyOf
    MaxCrashes = 0
CHECK_DEADLOCK FALSE
PROPERTY
    PurgedTaskIsNotRerun
