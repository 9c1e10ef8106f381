CONSTANTS
    MaxFaults = 2
SPECIFICATION FairClusterSpec
INVARIANTS
    CredentialsAgree
    EnabledStays
    SettingsKept
PROPERTIES
    
    EventuallyGone
CHECK_DEADLOCK FALSE
