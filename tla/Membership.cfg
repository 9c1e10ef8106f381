SPECIFICATION FairSpec
CONSTANTS
    Replicas = {r1, r2}
    Asked = {r1}
    NoReplica = NoReplica
    Projects = {p1}
    Cluster = Cluster
    Budget = 2
CHECK_DEADLOCK FALSE
INVARIANTS
    OwnChangesSeen
    MirrorHasNotified
PROPERTIES
    MirrorOnlyForward
    MirrorConverges
