SPECIFICATION Spec
CONSTANTS
    r1 = r1
    r2 = r2
    NoRun = NoRun
    Runs <- MCRuns
INVARIANTS
    TypeOK
    
    RuntimeHasOwner
    RuntimeInUseIsOpen
PROPERTIES
    EndIsFinal
    StopIsHonoured
CHECK_DEADLOCK FALSE
