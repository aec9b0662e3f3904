SPECIFICATION Spec
CONSTANTS
    HelmRelease <- OneRelease
    OpscenterFeatures = "opscenter-features"
    ManifestWork <- CoreWorks
    WorkOf <- OneWorkOf
    ChartOf <- OneMoving
    Version = {1, 2}
    Installed = 1
    Stamp = {2}
    BadStamp = {}
    Revision = {0}
    BrokenRevision = {}
    ConfigMapName = {1, 2}
    Lagging = {"binding", "configmap"}
    Fault = {"call", "crash"}
    MaxFaults = 1
    Edit = {"version", "stamp"}
    MaxEdits = 1
    MaxGeneration = 8
    Forward = TRUE
    OldBuild = FALSE
INVARIANTS
    NeverStranded
CHECK_DEADLOCK FALSE
