----------------------------- MODULE MCPlatform -----------------------------
(* Instances of Platform for TLC. *)
EXTENDS Platform, TLC

CONSTANTS p1, p2

TheNs    == [p \in Platforms |-> "ns"]
TheNames == [p \in Platforms |-> p]

SpecOf(d, v, g, ok) == [dataIndex |-> d # "off", exposed |-> d = "exposed", vector |-> v,
                        gateway |-> g, valid |-> ok]
Data    == SpecOf("exposed", TRUE, "off", TRUE)
Partly  == SpecOf("on", FALSE, "off", TRUE)
Off     == SpecOf("off", FALSE, "off", TRUE)
Gateway == SpecOf("off", FALSE, "on", TRUE)
Exposed == SpecOf("off", FALSE, "exposed", TRUE)
Invalid == SpecOf("off", FALSE, "on", FALSE)

Only(p, ss) == [q \in Platforms |-> IF q = p THEN ss ELSE {}]

\* One platform whose gateway changes and changes back; one where a call fails or the operator
\* restarts; one whose Data Index and Vector change; two that are created in one namespace.
SwitchScenario  == [specs |-> Only(p1, {Gateway, Off}), stored |-> {Gateway},
                    touched |-> {}, edits |-> 2, faults |-> 0]
GatewayScenario == [specs |-> Only(p1, {Exposed, Off}), stored |-> {Gateway, Invalid},
                    touched |-> {"gwService"}, edits |-> 1, faults |-> 1]
DataScenario    == [specs |-> Only(p1, {Partly}), stored |-> {Data},
                    touched |-> {}, edits |-> 1, faults |-> 1]
TwoScenario     == [specs |-> [p \in Platforms |-> {Gateway}], stored |-> {},
                    touched |-> {}, edits |-> 2, faults |-> 0]
SafetyScenarios   == {SwitchScenario, GatewayScenario, TwoScenario}
LivenessScenarios == {GatewayScenario, DataScenario}

\* A gateway is enabled and its platform deleted.
LeakScenarios == {[specs |-> Only(p1, {Gateway}), stored |-> {Gateway},
                   touched |-> {}, edits |-> 1, faults |-> 0]}
=============================================================================
