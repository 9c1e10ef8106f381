CONSTANTS
    p1 = p1
    p2 = p2
    j1 = j1
    j2 = j2
    Namespaces = {p1, p2}
    Kinds = {"postgres", "secrets"}
    Optional = {"postgres"}
    Values = {1, 2}
    Jobs = {j1, j2}
    Busy = {p1}
    Keep = 1
    MaxTries = 2
    MaxChanges = 1
    MaxFailures = 2
    MaxRestores = 2
    System = System
    Unknown = Unknown
SPECIFICATION BackupSpec
SYMMETRY Alike
CONSTRAINT Apart
 
PROPERTY RestoreGivesBack
CHECK_DEADLOCK FALSE
