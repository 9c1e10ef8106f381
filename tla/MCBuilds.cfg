CONSTANTS
    s1 = s1
    s2 = s2
    Deploys <- MCDeploys
    Sources = {s1, s2}
    Registries = {1, 2}
    KeptSucceeded = 1
    KeptFailed = 1
    MaxChanges = 3
    MaxFaults = 1
    None = None
SPECIFICATION FairBuildsSpec
PROPERTIES
    DoneIsOfSource
    EventuallyAnswered
CHECK_DEADLOCK FALSE
