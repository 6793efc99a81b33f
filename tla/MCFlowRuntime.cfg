CONSTANTS
    c1 = c1
    Nil = Nil
    CMs = {c1}
    Slots <- OneSlot
    Scenarios <- SafetyScenarios
SPECIFICATION Spec
INVARIANT TypeOK QuietDeploymentIsCurrent QuietStatusIsCurrent
CHECK_DEADLOCK FALSE
