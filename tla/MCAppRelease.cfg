SPECIFICATION MCSpec
CONSTANTS
    Images = {i1, i2}
    FirstImage = i1
    Configs = {c1, c2}
    NoImage = NoImage
    InitConfig = c1
    MaxReleases = 2
    Budget = 3
VIEW View
CHECK_DEADLOCK FALSE
INVARIANTS
    HistoryWellFormed
    RunningIsReleased
    QuiescentIsCurrent
PROPERTIES
    ImplementsLog
    EventuallySettled
