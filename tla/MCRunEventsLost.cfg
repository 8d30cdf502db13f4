SPECIFICATION Spec
CONSTANTS
    c1 = c1
    c2 = c2
    Clients <- MCClients
    LastEvent = 3
    MaxDrops = 0
CHECK_DEADLOCK FALSE
INVARIANT
    ReturnedClientHasAllEvents
