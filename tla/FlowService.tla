----------------------------- MODULE FlowService -----------------------------
(***************************************************************************)
(* The LogicFlowService controller and webhook, for one service: it        *)
(* resolves the definitions it refers to and their runtime, and makes an   *)
(* Ingress (with two more of them for a split), an OpenShift Route or an   *)
(* HTTPRoute.  Definitions and runtimes are read and not watched.          *)
(*                                                                         *)
(* An object is the service it belongs to, the runtime it goes to and its  *)
(* targets: versions with weights.  One without targets leaves the path,   *)
(* and with it the version, to the client.                                 *)
(***************************************************************************)
EXTENDS Integers, Sequences, FiniteSets, FiniteSetsExt

CONSTANTS
    Defs,          \* names of definitions
    WfOf, RtOf,    \* [Defs -> workflow names], [Defs -> Runtimes]: both immutable
    Versions,      \* versions of workflows
    Runtimes,      \* names of runtimes
    Absent, New,   \* a definition that is not there, and one without labels yet
    NoDef, Empty,  \* no spec.defaultDefinition, and one whose name is empty
    Scenarios      \* clusters, with what users do there and the bounds of that

\* hosted: spec.ingress.host is set.
Traffic == Seq([def : Defs, weight : 0..100])
ServiceSpec == [default : Defs \cup {NoDef, Empty}, traffic : Traffic,
                gateway : BOOLEAN, hosted : BOOLEAN]
DefStates == Versions \cup {Absent, New}
RtStates  == {"none", "down", "up"}
Kinds     == {"main", "canary", "direct", "route", "http"}   \* of objects

Scenario(sc) == /\ sc.openshift \in BOOLEAN /\ sc.gatewayAPI \in BOOLEAN
                /\ sc.specs \cup sc.stored \subseteq ServiceSpec /\ sc.defs \in [Defs -> DefStates]
                /\ sc.rts \in [Runtimes -> RtStates] /\ sc.touched \subseteq Kinds
                /\ sc.edits \in Nat /\ sc.faults \in Nat

ASSUME ServiceConstants ==
    /\ {Absent, New} \cap Versions = {} /\ Absent # New
    /\ {NoDef, Empty} \cap Defs = {} /\ NoDef # Empty
    /\ RtOf \in [Defs -> Runtimes]
    /\ \A sc \in Scenarios : Scenario(sc)

VARIABLES
    svc,           \* the service
    defs, rts,     \* the definitions' version labels, and the runtimes
    net,           \* the objects made for the service
    cache,         \* the informers' copies of all four
    news,          \* what the informers have not heard of yet
    queue, later,  \* is the service queued; will it be, in five seconds
    w,             \* the worker, and the definitions and runtimes it read last
    sc, edits, faults

vars == <<svc, defs, rts, net, cache, news, queue, later, w, sc, edits, faults>>

Nothing  == [uid |-> 0, rt |-> "", to |-> <<>>]
There(o) == o.uid # 0

NoSpec   == [default |-> NoDef, traffic |-> <<>>, gateway |-> FALSE, hosted |-> FALSE]
NoStatus == [og |-> 0, cond |-> "none", ref |-> "none", traffic |-> <<>>, ready |-> FALSE, url |-> FALSE]
NoSvc    == [uid |-> 0, gen |-> 0, spec |-> NoSpec, status |-> NoStatus]
Exists(s) == s.uid # 0

Conds == {"none", "True", "Misconfigured", "GatewayRefRequired", "GatewayAPINotAvailable"}

Idle == [busy |-> FALSE, obj |-> NoSvc, todo |-> <<>>]
Init ==
    /\ sc \in Scenarios
    /\ svc \in {NoSvc} \cup {[NoSvc EXCEPT !.uid = 1, !.gen = 1, !.spec = s] : s \in sc.stored}
    /\ defs = sc.defs /\ rts = sc.rts
    /\ net = [k \in Kinds |-> Nothing]
    /\ cache = [svc |-> svc, defs |-> defs, rts |-> rts, net |-> net]
    /\ news = {} /\ queue = Exists(svc) /\ later = FALSE
    /\ w = [do |-> Idle, defs |-> defs, rts |-> rts]
    /\ edits = sc.edits /\ faults = sc.faults

\* What this step changes on the API server is news.
Notify == news' = news \cup {i \in {"svc"} : svc' # svc} \cup {i \in {"defs"} : defs' # defs}
                       \cup {i \in {"rts"} : rts' # rts} \cup {i \in {"net"} : net' # net}

-----------------------------------------------------------------------------
(* The webhook, which reads the same caches                                *)

\* A recursive function and no fold, for the sake of the proofs.
Total(numbers) == LET upTo[n \in 0..Len(numbers)] == IF n = 0 THEN 0 ELSE upTo[n - 1] + numbers[n]
                  IN upTo[Len(numbers)]
TotalWeight(traffic) == Total([i \in DOMAIN traffic |-> traffic[i].weight])

validateTrafficConfig(s) ==
    LET hasDefault == s.default \in Defs
    IN  (s.traffic # <<>> <=> ~hasDefault) /\ (s.traffic # <<>> => TotalWeight(s.traffic) = 100)

validateIngress(s) == s.gateway \/ sc.openshift \/ s.hosted

\* The definitions a service refers to, in order.
resolveDefinitionRefs(s) ==
    IF s.default \in Defs THEN <<s.default>>
    ELSE [i \in DOMAIN s.traffic |-> s.traffic[i].def]

\* All are there and go to one runtime; the workflow's name is in the flow if it is not
\* in a label.
validateDefinitions(s) ==
    LET refs == resolveDefinitionRefs(s)
    IN  \A i, j \in DOMAIN refs : /\ cache.defs[refs[i]] # Absent
                                  /\ RtOf[refs[i]] = RtOf[refs[j]] /\ WfOf[refs[i]] = WfOf[refs[j]]

validateGatewayRefImmutable(old, new) == old.gateway = new.gateway

validate(s) == validateTrafficConfig(s) /\ validateIngress(s) /\ validateDefinitions(s)

-----------------------------------------------------------------------------
(* Users, the other controllers and the garbage collector                  *)

Edit == edits > 0 /\ edits' = edits - 1

CreateService(s) ==
    /\ ~Exists(svc) /\ validate(s) /\ Edit
    /\ svc' = [NoSvc EXCEPT !.uid = 1 + edits, !.gen = 1, !.spec = s]
    /\ UNCHANGED <<defs, rts, net, cache, queue, later, w, sc, faults>> /\ Notify

UpdateService(s) ==
    /\ Exists(svc) /\ s # svc.spec /\ validateGatewayRefImmutable(svc.spec, s) /\ validate(s) /\ Edit
    /\ svc' = [svc EXCEPT !.spec = s, !.gen = @ + 1]
    /\ UNCHANGED <<defs, rts, net, cache, queue, later, w, sc, faults>> /\ Notify

DeleteService ==
    /\ Exists(svc) /\ Edit /\ svc' = NoSvc
    /\ UNCHANGED <<defs, rts, net, cache, queue, later, w, sc, faults>> /\ Notify

\* A definition is created or deleted, or its controller labels it.
ChangeDefinition(d, st) ==
    /\ defs[d] # st /\ (defs[d] = Absent <=> st = New) /\ Edit
    /\ defs' = [defs EXCEPT ![d] = st]
    /\ UNCHANGED <<svc, rts, net, cache, queue, later, w, sc, faults>> /\ Notify

ChangeRuntime(r, st) ==
    /\ rts[r] # st /\ (rts[r] = "none" => st = "down") /\ Edit
    /\ rts' = [rts EXCEPT ![r] = st]
    /\ UNCHANGED <<svc, defs, net, cache, queue, later, w, sc, faults>> /\ Notify

\* Somebody deletes an object.
TouchObject(k) ==
    /\ k \in sc.touched /\ There(net[k]) /\ Edit
    /\ net' = [net EXCEPT ![k] = Nothing]
    /\ UNCHANGED <<svc, defs, rts, cache, queue, later, w, sc, faults>> /\ Notify

CollectGarbage(k) ==
    /\ There(net[k]) /\ net[k].uid # svc.uid
    /\ net' = [net EXCEPT ![k] = Nothing]
    /\ UNCHANGED <<svc, defs, rts, cache, queue, later, w, sc, edits, faults>> /\ Notify

\* Mutant: the objects that the controller makes are not watched.
watchesServicesOnly(i) == i = "svc"

\* Only services and what they own wake the controller.
watches(i) == i \in {"svc", "net"}

Deliver(i) ==
    /\ i \in news /\ news' = news \ {i}
    /\ cache' = CASE i = "svc"  -> [cache EXCEPT !.svc = svc]
                  [] i = "defs" -> [cache EXCEPT !.defs = defs]
                  [] i = "rts"  -> [cache EXCEPT !.rts = rts]
                  [] i = "net"  -> [cache EXCEPT !.net = net]
    /\ queue' = (queue \/ watches(i))
    /\ UNCHANGED <<svc, defs, rts, net, later, w, sc, edits, faults>>

-----------------------------------------------------------------------------
(* Resolution, on what the worker read: ds and r                           *)

VersionOf(ds, d) == IF ds[d] \in Versions THEN ds[d] ELSE ""
NameOf(ds, d)    == IF ds[d] \in Versions THEN WfOf[d] ELSE ""

\* Each reference is there and agrees with the one before it.
resolveDefinitions(s, ds) ==
    LET refs == resolveDefinitionRefs(s)
    IN  /\ refs # <<>>
        /\ \A i \in DOMAIN refs : ds[refs[i]] # Absent
        /\ \A i \in 1..(Len(refs) - 1) :
               /\ NameOf(ds, refs[i]) \in {"", NameOf(ds, refs[i + 1])}
               /\ RtOf[refs[i]] = RtOf[refs[i + 1]]

resolveRuntime(s) == RtOf[resolveDefinitionRefs(s)[1]]

Target(v, n) == [version |-> v, weight |-> n]

\* The first of the largest weights; the other one of two; nothing if there is one only.
PrimaryIndex(traffic) ==
    Min({i \in DOMAIN traffic : \A j \in DOMAIN traffic : traffic[j].weight <= traffic[i].weight})

splitTrafficTargets(s, ds) ==
    LET p == PrimaryIndex(s.traffic)
        c == 3 - p
        At(i) == Target(VersionOf(ds, s.traffic[i].def), s.traffic[i].weight)
    IN  <<At(p), IF c \in DOMAIN s.traffic THEN At(c) ELSE Target("", 0)>>

\* A default whose name is empty counts as one here.
buildTrafficTargets(s, ds) ==
    IF s.default # NoDef THEN <<Target(VersionOf(ds, resolveDefinitionRefs(s)[1]), 100)>>
    ELSE [i \in DOMAIN s.traffic |-> Target(VersionOf(ds, s.traffic[i].def), s.traffic[i].weight)]

-----------------------------------------------------------------------------
(* What is made of a service, as a list of calls, a condition and a        *)
(* reference                                                               *)

Apply(k, to)  == [op |-> "apply", k |-> k, to |-> to]
Delete(k)     == [op |-> "delete", k |-> k, to |-> <<>>]
Outcome(todo, cond, ref) == [todo |-> todo, cond |-> cond, ref |-> ref]

\* Mutant: only the canary is removed.
deleteStaleCanary == <<Delete("canary")>>

deleteStaleCanaryIngresses == <<Delete("canary"), Delete("direct")>>

\* With passthrough the path is the client's, and the version with it.
ingressForService(target, passthrough) == Apply("main", IF passthrough THEN <<>> ELSE <<target>>)

\* Mutant: the weight is computed from the primary's, the wrong way round.
canaryIngressNegative(target) == Apply("canary", <<[target EXCEPT !.weight = @ - 100]>>)

canaryIngressForService(target) == Apply("canary", <<target>>)
directVersionIngress == Apply("direct", <<>>)
routeForDefault      == Apply("route", <<>>)
httpRouteForService(targets) == Apply("http", targets)

applyDefaultIngress == <<ingressForService(Target("", 100), TRUE)>>

applyCanaryIngresses(s, ds) ==
    LET split == splitTrafficTargets(s, ds)
    IN  <<ingressForService(split[1], FALSE), canaryIngressForService(split[2]), directVersionIngress>>

applyHTTPRoute(s, ds) ==
    IF ~sc.gatewayAPI THEN Outcome(<<>>, "GatewayAPINotAvailable", "none")
    ELSE Outcome(<<httpRouteForService(buildTrafficTargets(s, ds))>>, "True", "http")

\* The early returns, in order; what an earlier spec made is left as it is.
applyNetworking(s, ds) ==
    IF ~s.gateway /\ ~sc.openshift /\ ~s.hosted THEN Outcome(<<>>, "Misconfigured", "none")
    ELSE IF s.gateway THEN applyHTTPRoute(s, ds)
    ELSE IF s.default # NoDef
         THEN IF sc.openshift
              THEN Outcome(Append(deleteStaleCanaryIngresses, routeForDefault), "True", "route")
              ELSE Outcome(deleteStaleCanaryIngresses \o applyDefaultIngress, "True", "main")
    ELSE IF sc.openshift \/ Len(s.traffic) > 2 THEN Outcome(<<>>, "GatewayRefRequired", "none")
    ELSE Outcome(applyCanaryIngresses(s, ds), "True", "main")

-----------------------------------------------------------------------------
(* Reconcile                                                               *)

\* Mutant: the error is logged and not returned.
Forget == w' = [w EXCEPT !.do = Idle] /\ UNCHANGED queue

Requeue == w' = [w EXCEPT !.do = Idle] /\ queue' = TRUE
Fault   == faults > 0 /\ faults' = faults - 1

\* Everything that is read is read now, from the caches.
Begin ==
    /\ ~w.do.busy /\ queue
    /\ LET s == cache.svc
           ready == /\ resolveDefinitions(s.spec, cache.defs)
                    /\ cache.rts[resolveRuntime(s.spec)] # "none"
           named == NameOf(cache.defs, resolveDefinitionRefs(s.spec)[1]) # ""
           out == applyNetworking(s.spec, cache.defs)
       IN  \/ ~Exists(s) /\ queue' = FALSE /\ UNCHANGED <<w, later>>
           \/ Exists(s) /\ ~ready /\ UNCHANGED <<queue, w, later>>       \* an error: try again
           \/ Exists(s) /\ ready /\ ~named /\ queue' = FALSE /\ later' = TRUE /\ UNCHANGED w
           \/ /\ Exists(s) /\ ready /\ named /\ queue' = FALSE
              /\ w' = [do |-> [busy |-> TRUE, obj |-> s, todo |-> out.todo],
                       defs |-> cache.defs, rts |-> cache.rts]
              /\ UNCHANGED later
    /\ UNCHANGED <<svc, defs, rts, net, cache, news, sc, edits, faults>>

RequeueAfter ==
    /\ later /\ later' = FALSE /\ queue' = TRUE
    /\ UNCHANGED <<svc, defs, rts, net, cache, news, w, sc, edits, faults>>

\* The next call: server-side apply with forced ownership, or a delete by name.
Call ==
    /\ w.do.busy /\ w.do.todo # <<>>
    /\ LET c == Head(w.do.todo)
       IN  net' = [net EXCEPT ![c.k] =
               IF c.op = "delete" THEN Nothing
               ELSE [uid |-> w.do.obj.uid, rt |-> resolveRuntime(w.do.obj.spec), to |-> c.to]]
    /\ w' = [w EXCEPT !.do.todo = Tail(@)]
    /\ UNCHANGED <<svc, defs, rts, cache, queue, later, sc, edits, faults>> /\ Notify

CallFails ==
    /\ w.do.busy /\ Fault /\ Requeue
    /\ UNCHANGED <<svc, defs, rts, net, cache, news, later, sc, edits>>

\* Of the object as the cache has it.  Without the Gateway API there is no such kind.
resolveURL(s) ==
    IF s.gateway THEN There(cache.net["http"]) /\ s.hosted
    ELSE There(cache.net[IF sc.openshift THEN "route" ELSE "main"])

\* Accepted if nobody wrote the service since it was read.
updateStatus ==
    /\ w.do.busy /\ w.do.todo = <<>>
    /\ LET s == w.do.obj
           out == applyNetworking(s.spec, w.defs)
           st == [og |-> s.gen, cond |-> out.cond, ref |-> out.ref,
                  traffic |-> IF s.spec.default \in Defs
                              THEN <<[def |-> s.spec.default, weight |-> 100]>> ELSE s.spec.traffic,
                  ready |-> w.rts[resolveRuntime(s.spec)] = "up", url |-> resolveURL(s.spec)]
       IN  IF (s.spec.gateway => sc.gatewayAPI) /\ s = svc
           THEN /\ svc' = [svc EXCEPT !.status = st]
                /\ w' = [w EXCEPT !.do = Idle] /\ UNCHANGED queue
           ELSE Requeue /\ UNCHANGED svc
    /\ UNCHANGED <<defs, rts, net, cache, later, sc, edits, faults>> /\ Notify

\* The operator starts anew: caches are filled, and a service that is there is queued.
Restart ==
    /\ w.do.busy /\ Fault
    /\ w' = [w EXCEPT !.do = Idle] /\ queue' = Exists(svc) /\ later' = FALSE /\ news' = {}
    /\ cache' = [svc |-> svc, defs |-> defs, rts |-> rts, net |-> net]
    /\ UNCHANGED <<svc, defs, rts, net, sc, edits>>

-----------------------------------------------------------------------------
Users == \/ \E s \in sc.specs : CreateService(s) \/ UpdateService(s)
         \/ DeleteService
         \/ \E d \in Defs : \E st \in DefStates : ChangeDefinition(d, st)
         \/ \E r \in Runtimes : \E st \in RtStates : ChangeRuntime(r, st)
         \/ \E k \in Kinds : TouchObject(k)

Informers == {"svc", "defs", "rts", "net"}
Work == Begin \/ Call \/ updateStatus
Next == Users \/ (\E i \in Informers : Deliver(i)) \/ (\E k \in Kinds : CollectGarbage(k))
        \/ Work \/ RequeueAfter \/ CallFails \/ Restart

\* The worker, the informers, the timer and the garbage collector go on as long as they
\* have something to do.
Fairness == /\ WF_vars(Work) /\ WF_vars(RequeueAfter)
            /\ \A i \in Informers : WF_vars(Deliver(i))
            /\ WF_vars(\E k \in Kinds : CollectGarbage(k))

Spec == Init /\ [][Next]_vars /\ Fairness

-----------------------------------------------------------------------------
(* Properties                                                              *)

ServiceStatus == [og : Nat, cond : Conds, ref : Kinds \cup {"none"}, traffic : Traffic,
                  ready : BOOLEAN, url : BOOLEAN]
Service    == [uid : Nat, gen : Nat, spec : ServiceSpec, status : ServiceStatus]
Targets    == Seq([version : Versions \cup {""}, weight : 0..100])
Networking == [Kinds -> [uid : Nat, rt : Runtimes \cup {""}, to : Targets]]
Calls      == Seq([op : {"apply", "delete"}, k : Kinds, to : Targets])

TypeOK ==
    /\ svc \in Service /\ defs \in [Defs -> DefStates] /\ rts \in [Runtimes -> RtStates]
    /\ net \in Networking
    /\ cache \in [svc : Service, defs : [Defs -> DefStates], rts : [Runtimes -> RtStates], net : Networking]
    /\ w \in [do : [busy : BOOLEAN, obj : Service, todo : Calls],
              defs : [Defs -> DefStates], rts : [Runtimes -> RtStates]]
    /\ news \subseteq Informers /\ queue \in BOOLEAN /\ later \in BOOLEAN
    /\ sc \in Scenarios /\ edits \in Nat /\ faults \in Nat

Quiet == /\ news = {} /\ ~queue /\ ~later /\ ~w.do.busy
         /\ \A k \in Kinds : There(net[k]) => net[k].uid = svc.uid

\* The share of the requests that goes to version v by itself.
Share(v) ==
    LET http == net["http"].to
    IN  IF There(net["http"]) THEN Total([i \in DOMAIN http |-> IF http[i].version = v THEN http[i].weight ELSE 0])
        ELSE (IF net["canary"].to # <<>> /\ net["canary"].to[1].version = v
              THEN net["canary"].to[1].weight ELSE 0)
             + (IF net["main"].to # <<>> /\ net["main"].to[1].version = v
                THEN 100 - (IF There(net["canary"]) THEN net["canary"].to[1].weight ELSE 0) ELSE 0)

Asked(s, v) == Total([i \in DOMAIN s.traffic |->
                         IF VersionOf(w.defs, s.traffic[i].def) = v THEN s.traffic[i].weight ELSE 0])

\* When all is quiet and the service says that its ingress is ready, the requests are shared
\* out as its spec asks, over the versions the controller read, by the runtime they run
\* on; and nothing that was made for an earlier spec takes any.
QuietRoutesAsAsked ==
    Quiet /\ svc.status.cond = "True" /\ svc.spec.default # Empty =>
        LET s == svc.spec
        IN  /\ \A k \in Kinds : There(net[k]) => net[k].rt = resolveRuntime(s)
            /\ s.default = NoDef => \A v \in Versions : Share(v) = Asked(s, v)
            /\ s.default # NoDef /\ s.gateway => Share(w.defs[s.default]) = 100
            /\ s.default # NoDef => ~There(net["canary"]) /\ ~There(net["direct"])
            /\ Cardinality({k \in {"main", "route", "http"} : There(net[k])}) = 1

\* When all is quiet the status tells of this generation of the spec, of the URL that the
\* object has, and of the runtime as it was read.
QuietStatusIsCurrent ==
    Quiet /\ Exists(svc) =>
        /\ svc.status.og = svc.gen
        /\ svc.status.url = IF svc.spec.gateway THEN There(net["http"]) /\ svc.spec.hosted
                            ELSE There(net["main"]) \/ There(net["route"])
        /\ svc.status.ref # "none" => There(net[svc.status.ref])
        /\ svc.status.ready = (w.rts[resolveRuntime(svc.spec)] = "up")

\* A service whose definitions and runtime are there, and whose Gateway API is, gets its
\* objects and its status for good, and one that is gone leaves nothing behind.
ServiceSettles ==
    <>[](/\ Exists(svc) /\ resolveDefinitions(svc.spec, defs) /\ rts[resolveRuntime(svc.spec)] # "none"
            /\ defs[resolveDefinitionRefs(svc.spec)[1]] # New /\ (svc.spec.gateway => sc.gatewayAPI)
            => svc.status.og = svc.gen
         /\ ~Exists(svc) => \A k \in Kinds : ~There(net[k]))

=============================================================================
