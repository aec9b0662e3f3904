SPECIFICATION Spec
CONSTANTS
    ChartValues <- MCChart
    FeatureValues <- MCFeature
    ProfileValues <- MCProfile
    BindingValues <- MCBinding
    Version = {1, 2}
    Namespace = {1, 2}
    FeatureNamespace = 1
INVARIANTS
    ReachesGeneration
    PathsAgree
    AsTheCode
