SPECIFICATION FairSpec
CONSTANTS
    HelmRelease <- TwoReleases
    OpscenterFeatures = "opscenter-features"
    ManifestWork <- TwoWorks
    WorkOf <- TwoWorkOf
    ChartOf <- TwoDropping
    Version = {1, 2, 3}
    Installed = 1
    Stamp = {2}
    BadStamp = {}
    Revision = {0}
    BrokenRevision = {}
    ConfigMapName = {1, 2}
    Lagging = {}
    Fault = {}
    MaxFaults = 0
    Edit = {"version"}
    MaxEdits = 2
    MaxGeneration = 8
    Forward = TRUE
    OldBuild = TRUE
PROPERTIES
    Converges
CHECK_DEADLOCK FALSE
