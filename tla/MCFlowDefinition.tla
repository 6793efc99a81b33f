-------------------------- MODULE MCFlowDefinition --------------------------
EXTENDS FlowDefinition, TLC

CONSTANTS d1, d2, r1, r2, w1, w2, v1, v2

Symmetry == Permutations({d1, d2}) \cup Permutations({r1, r2})

\* One object, on one runtime, whose name stands for one workflow.
OneName == d1 :> {<<r1, w1>>}

\* Objects of both names are versions of one workflow, on either runtime.
OneWorkflow == [d \in {d1, d2} |-> {<<r1, w1>>, <<r2, w1>>}]

\* The name d1 stands for two workflows in turn; d2 is a version of one of
\* them, on another runtime.
NameReused == (d1 :> {<<r1, w1>>, <<r1, w2>>}) @@ (d2 :> {<<r2, w1>>})

\* d2 is asked for when d1 has been created for the third time.
D2Last == IF nextUid <= 3 THEN review[d2] = NoRequest ELSE review[d1] = NoRequest

=============================================================================
