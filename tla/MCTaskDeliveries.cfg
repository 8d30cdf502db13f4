SPECIFICATION Spec
CONSTANTS
    d1 = d1
    d2 = d2
    Notices <- MCNotices
    MaxCrashes = 2
INVARIANTS
    TypeOK
    PublishedOncePerCrash
    
PROPERTIES
    RecordedIsDelivered
    
