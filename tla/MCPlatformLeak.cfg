CONSTANTS
    p1 = p1
    p2 = p2
    Platforms = {p1}
    NsOf <- TheNs
    VectorName <- TheNames
    BindingName <- TheNames
    NoOne = NoOne
    User = User
    Scenarios <- LeakScenarios
SPECIFICATION Spec
CHECK_DEADLOCK FALSE
INVARIANT BindingGoesFirst
