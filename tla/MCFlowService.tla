---------------------------- MODULE MCFlowService ----------------------------
(* Instances of FlowService for TLC. *)
EXTENDS FlowService, TLC

CONSTANTS d1, d2, v1, v2

TheWfs == [d \in Defs |-> "wf"]
TheRts == [d \in Defs |-> "rt"]

Entry(d, n) == [def |-> d, weight |-> n]
To(d, gw)     == [NoSpec EXCEPT !.default = d, !.gateway = gw, !.hosted = TRUE]
Split(ts, gw) == [NoSpec EXCEPT !.traffic = ts, !.gateway = gw, !.hosted = TRUE]
Two   == <<Entry(d1, 60), Entry(d2, 40)>>
Other == <<Entry(d1, 30), Entry(d2, 70)>>
One   == <<Entry(d2, 100)>>
Three == <<Entry(d1, 50), Entry(d2, 20), Entry(d1, 30)>>

Base == [openshift |-> FALSE, gatewayAPI |-> TRUE, specs |-> {}, stored |-> {}, touched |-> {},
         defs |-> (d1 :> v1 @@ d2 :> v2), rts |-> [r \in Runtimes |-> "up"], edits |-> 2, faults |-> 0]

\* nginx, with a failing call or a restart; the same with more kinds of specs; OpenShift;
\* the Gateway API, and a cluster without it; definitions that are not labelled yet.
Nginx     == [Base EXCEPT !.specs = {To(d1, FALSE), Split(Two, FALSE)}, !.stored = {Split(Two, FALSE)},
                          !.faults = 1, !.edits = 1, !.touched = {"canary"}]
Splits    == [Base EXCEPT !.specs = {Split(t, FALSE) : t \in {Two, Other, One, Three}}
                                    \cup {[Split(Two, FALSE) EXCEPT !.default = Empty]},
                          !.stored = {To(d1, FALSE)}]
OpenShift == [Base EXCEPT !.openshift = TRUE, !.stored = {To(d1, FALSE)},
                          !.specs = {Split(Two, FALSE), [To(d2, FALSE) EXCEPT !.hosted = FALSE]}]
Gateways  == [Base EXCEPT !.specs = {To(d2, TRUE), Split(Three, TRUE)}, !.stored = {To(d1, FALSE)}]
NoGateway == [Base EXCEPT !.gatewayAPI = FALSE, !.specs = {To(d1, TRUE)}]
Unlabelled == [Base EXCEPT !.defs = (d1 :> New @@ d2 :> v2), !.rts = [r \in Runtimes |-> "none"],
                           !.stored = {To(d1, FALSE), Split(Two, FALSE)}]
TheScenarios == {Nginx, Splits, OpenShift, Gateways, NoGateway, Unlabelled}
=============================================================================
