SPECIFICATION FairSpec
CONSTANTS
    HelmRelease <- OneRelease
    OpscenterFeatures = "opscenter-features"
    ManifestWork <- CoreWorks
    WorkOf <- OneWorkOf
    ChartOf <- OneMoving
    Version = {1, 2}
    Installed = 1
    Stamp = {2}
    BadStamp = {}
    Revision = {0, 1}
    BrokenRevision = {1}
    ConfigMapName = {1, 2}
    Lagging = {}
    Fault = {"call", "readback"}
    MaxFaults = 1
    Edit = {"version", "values"}
    MaxEdits = 2
    MaxGeneration = 8
    Forward = TRUE
    OldBuild = FALSE
PROPERTIES
    Converges
CHECK_DEADLOCK FALSE
