CONSTANTS
    c1 = c1
    Nil = Nil
    CMs = {c1}
    Slots <- OneSlot
    Scenarios <- LivenessScenarios
SPECIFICATION FairSpec
PROPERTY RuntimeConverges
CHECK_DEADLOCK FALSE
