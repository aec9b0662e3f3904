\* A ManifestWork cache that lags the patch of opscenter-core.
SPECIFICATION Spec
CONSTANTS
    HelmRelease <- CoreReleases
    OpscenterFeatures = "opscenter-features"
    ManifestWork <- CoreWorks
    WorkOf <- CoreWorkOf
    ChartOf <- CoreMoving
    Version = {1, 2}
    Installed = 1
    Stamp = {2}
    BadStamp = {}
    Revision = {0}
    BrokenRevision = {}
    ConfigMapName = {1, 2}
    Lagging = {"work"}
    Fault = {}
    MaxFaults = 0
    Edit = {"version"}
    MaxEdits = 1
    MaxGeneration = 8
    Forward = TRUE
    OldBuild = FALSE
INVARIANTS
    NeverStranded
CHECK_DEADLOCK FALSE
