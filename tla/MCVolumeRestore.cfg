SPECIFICATION MCSpec
CONSTANTS
    Snapshots = {s1, s2}
    FirstSnapshot = s1
    NoSnap = NoSnap
    Original = Original
    Blank = Blank
    MaxRequests = 2
    Budget = 1
VIEW View
CHECK_DEADLOCK FALSE
INVARIANTS
    UndisturbedNeverBlank
PROPERTIES
    RestoredDiskKept
    
