CONSTANTS
    p1 = p1
    p2 = p2
    Platforms = {p1, p2}
    NsOf <- TheNs
    VectorName <- TheNames
    BindingName <- TheNames
    NoOne = NoOne
    User = User
    Scenarios <- SafetyScenarios
SPECIFICATION Spec
CHECK_DEADLOCK FALSE
INVARIANT TypeOK OneGatewayPerNamespace QuietStatusIsCurrent QuietBindingIsGuarded
