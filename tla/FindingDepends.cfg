SPECIFICATION Spec
CONSTANTS
    Feature <- Features
    FeatureSet <- SetNames
    Core = "opscenter-core"
    SetOf <- Sets
    Requires <- Requirements
    Group <- Groups
    NoGroup = "none"
    Rank <- Ranks
    Catalogue <- Known
    HubCatalogue <- Known
    OpscenterFeatures = "opscenter-features"
    KubeUIServer = "kube-ui-server"
    CrdManager = "akp-crd-manager"
    LicenseProxyServer = "license-proxyserver"
    Elsewhere = {"license-proxyserver"}
    FeatureList <- MonitoringLists
    Revision = {0}
    Toggled = {"prometheus"}
    Lagging = FALSE
    MaxEdits = 0
    MaxFaults = 0
INVARIANTS
    DependsInstalled
