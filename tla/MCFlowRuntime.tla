--------------------------- MODULE MCFlowRuntime ---------------------------
EXTENDS FlowRuntime

CONSTANT c1

Plain == [durable |-> FALSE, replicas |-> Nil, template |-> Nil]

\* A durable runtime of one replica, given in the spec or in its pod template.
Durable   == [durable |-> TRUE, replicas |-> 1, template |-> Nil]
Templated == [durable |-> TRUE, replicas |-> 2, template |-> 1]

\* A Deployment comes up, or misses its deadline.
Rollout == {[conds |-> <<"Available">>, ready |-> 1], [conds |-> <<"Unavailable", "DeadlineExceeded">>, ready |-> 0]}
Up == {[conds |-> <<"Available">>, ready |-> 1]}

OneSlot == {0}

\* ConfigMaps come and go while the Deployment is rolled out; a runtime is switched between
\* durable and plain, with a failing call or a restart.
Mounting  == [labels |-> {"mine", "other", "gone"}, specs |-> {Plain}, reports |-> Rollout,
              edits |-> 2, faults |-> 0]
Switching == [labels |-> {"gone"}, specs |-> {Plain, Templated}, reports |-> Up, edits |-> 1, faults |-> 1]
SafetyScenarios == {Mounting, Switching}

\* A durable runtime loses what it has; a ConfigMap loses its label, which raises no event.
Losing      == [labels |-> {"gone"}, specs |-> {Durable}, reports |-> {}, edits |-> 1, faults |-> 0]
Unlabelling == [labels |-> {"mine", "none", "gone"}, specs |-> {Plain}, reports |-> {},
                edits |-> 1, faults |-> 1]
LivenessScenarios == {Losing, Unlabelling}

=============================================================================
