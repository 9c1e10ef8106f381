CONSTANTS
    Databases <- OneProject
    Home <- MCHome
    Creations <- WithCopy
    cache = c1
    Caches <- MCCaches
    MaxChanges = 4
    MaxFaults = 1
    None = None
SPECIFICATION FairSpec
INVARIANTS
    KeyOpensBucket
PROPERTIES
    
    EventuallyBound
CHECK_DEADLOCK FALSE
