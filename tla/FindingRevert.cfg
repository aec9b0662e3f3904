\* A user who goes back to an earlier version and forward again.
SPECIFICATION Spec
CONSTANTS
    HelmRelease <- OneRelease
    OpscenterFeatures = "opscenter-features"
    ManifestWork <- CoreWorks
    WorkOf <- OneWorkOf
    ChartOf <- OneMoving
    Version = {1, 2}
    Installed = 1
    Stamp = {2}
    BadStamp = {}
    Revision = {0}
    BrokenRevision = {}
    ConfigMapName = {1, 2}
    Lagging = {}
    Fault = {}
    MaxFaults = 0
    Edit = {"version"}
    MaxEdits = 3
    MaxGeneration = 8
    Forward = FALSE
    OldBuild = FALSE
INVARIANTS
    NeverStranded
CHECK_DEADLOCK FALSE
