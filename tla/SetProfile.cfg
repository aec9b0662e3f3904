SPECIFICATION FairSpec
CONSTANTS
    ClusterSet = {"blue", "green"}
    Cluster = {"c1", "c2"}
    NoSet = "none"
    OpenShift = {"c2"}
    Joined <- AllInBlue
    Informed = {"c2"}
    Version = {2}
    MaxInfo = 1
    MaxEdits = 2
    MaxFaults = 1
INVARIANTS
    TypeOK
    NoOrphanForgotten
PROPERTIES
    VersionKept
    TornOnlyStale
    EveryClusterBound
    OrphansGo
CHECK_DEADLOCK FALSE
