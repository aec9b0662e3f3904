SPECIFICATION Spec
CONSTANTS
    HelmRelease <- OneRelease
    OpscenterFeatures = "opscenter-features"
    ManifestWork <- CoreWorks
    WorkOf <- OneWorkOf
    ChartOf <- OneMoving
    Version = {1, 2}
    Installed = 1
    Stamp = {2}
    BadStamp = {}
    Revision = {0, 1}
    BrokenRevision = {}
    ConfigMapName = {1, 2}
    Lagging = {"binding", "work"}
    Fault = {}
    MaxFaults = 0
    Edit = {"version", "values", "stamp"}
    MaxEdits = 2
    MaxGeneration = 3
    Forward = TRUE
    OldBuild = FALSE
PROPERTIES
    NeedClearedByReadyRun
CHECK_DEADLOCK FALSE
