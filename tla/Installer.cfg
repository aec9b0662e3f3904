SPECIFICATION FairSpec
CONSTANTS
    Feature <- Features
    FeatureSet <- SetNames
    Core = "opscenter-core"
    SetOf <- Sets
    Requires <- Requirements
    Group <- Groups
    NoGroup = "none"
    Rank <- Ranks
    Catalogue <- Known
    HubCatalogue <- Known
    OpscenterFeatures = "opscenter-features"
    KubeUIServer = "kube-ui-server"
    CrdManager = "akp-crd-manager"
    LicenseProxyServer = "license-proxyserver"
    Elsewhere = {"license-proxyserver"}
    FeatureList <- AllLists
    Revision = {0, 1}
    Toggled = {"cert-manager", "prometheus"}
    Lagging = TRUE
    MaxEdits = 1
    MaxFaults = 1
INVARIANTS
    TypeOK
    DependsOnlyExcluded
    WrittenUnlessStale
    DoneIsSettled
    SanitizedIsLoop
PROPERTIES
    SecondOnlyUnreported
    Converges
