SPECIFICATION Spec
CONSTANTS
    HelmRelease <- TwoReleases
    OpscenterFeatures = "opscenter-features"
    ManifestWork <- TwoWorks
    WorkOf <- TwoWorkOf
    ChartOf <- TwoDropping
    Version = {1, 2}
    Installed = 1
    Stamp = {2, 3, 4}
    BadStamp = {4}
    Revision = {0}
    BrokenRevision = {}
    ConfigMapName = {1, 2}
    Lagging = {}
    Fault = {"call", "crash", "apply", "readback"}
    MaxFaults = 1
    Edit = {"version", "stamp", "chart", "state"}
    MaxEdits = 1
    MaxGeneration = 8
    Forward = TRUE
    OldBuild = FALSE
INVARIANTS
    TypeOK
    AsleepOnlyServed
    PendingIsServed
    OneConfigMap
PROPERTIES
    ImplementsJob
    NeedClearedByReadyRun
CHECK_DEADLOCK FALSE
