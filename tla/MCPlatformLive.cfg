CONSTANTS
    p1 = p1
    p2 = p2
    Platforms = {p1}
    NsOf <- TheNs
    VectorName <- TheNames
    BindingName <- TheNames
    NoOne = NoOne
    User = User
    Scenarios <- LivenessScenarios
SPECIFICATION Spec
CHECK_DEADLOCK FALSE
PROPERTY PlatformSettles DeletionCompletes
