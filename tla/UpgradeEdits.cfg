SPECIFICATION Spec
CONSTANTS
    HelmRelease <- CoreReleases
    OpscenterFeatures = "opscenter-features"
    ManifestWork <- CoreWorks
    WorkOf <- CoreWorkOf
    ChartOf <- CoreMoving
    Version = {1, 2}
    Installed = 1
    Stamp = {2}
    BadStamp = {}
    Revision = {0, 1}
    BrokenRevision = {}
    ConfigMapName = {1, 2}
    Lagging = {}
    Fault = {}
    MaxFaults = 0
    Edit = {"version", "values"}
    MaxEdits = 2
    MaxGeneration = 8
    Forward = FALSE
    OldBuild = FALSE
INVARIANTS
    StatusIsTrue
PROPERTIES
    ExactReady
    NeedClearedByReadyRun
CHECK_DEADLOCK FALSE
